---- MODULE Spec2Model ----
(***************************************************************************)
(* The permission evaluation engine of acl-poc: the grant store            *)
(* (resource_permissions), the decision cache and the membership cache     *)
(* (Redis), PermissionService.check / grant / revoke and the grant         *)
(* listings, over a small universe of users, groups and resources.         *)
(*                                                                         *)
(* Conventions.  An optional value (Python None or a value) is a set with  *)
(* at most one element: Null is None and Some(x) is x.  A field list is a  *)
(* set of field names, so Some({}) is the empty list [].  The grant store  *)
(* is a bag of rows: a row's uuid primary key is left out and the bag      *)
(* counts the rows that agree on every other column; revoking an id        *)
(* removes one copy.  Time is a counter of instants; now is utcnow().      *)
(***************************************************************************)
EXTENDS Naturals, Integers, Sequences, FiniteSets, Bags, TLC

VARIABLES
    store,        \* bag of rows of resource_permissions
    cachePerm,    \* Redis keys perm:{user}:{type}:{id}:{perm} -> cached decision
    cacheGroups,  \* Redis keys user_groups:{user} -> cached list of group ids
    cacheOn,      \* CacheService.is_available()
    now,          \* datetime.utcnow()
    pre,          \* history: the decisions before the latest tracked grant
    inflight,     \* requests and worker runs between two of their steps
    audit,        \* bag of rows of audit_logs
    last,         \* history: the latest completed API call or worker run
    created,      \* business rows inserted by the create endpoints
    sched         \* APScheduler: per job id, running instances and missed fires

vars == <<store, cachePerm, cacheGroups, cacheOn, now, pre,
          inflight, audit, last, created, sched>>

\* The state the engine alone does not touch.
extras == <<inflight, audit, last, created, sched>>

Null == {}
Some(x) == {x}
TheValue(o) == CHOOSE x \in o : TRUE

(***************************************************************************)
(* Bounds of the model.                                                    *)
(***************************************************************************)
MaxRows == 2      \* rows the store holds at a time
MaxTime == 2      \* last instant the clock reaches

(***************************************************************************)
(* The universe: users, groups, business rows.                             *)
(***************************************************************************)
Users == {"alice", "bob", "root"}
is_admin == [u \in Users |-> u = "root"]
Groups == {"ops"}

\* models/permission.py enums
GranteeTypes == {"user", "group"}
ResourceTypes == {"group", "user", "site", "plan", "sensor", "broker", "alarm",
                  "alert", "dashboard", "hardware", "datatype", "protocol",
                  "parser", "manufacturer", "communication_mode"}
Permissions == {"member", "read", "write", "delete", "create", "manage"}
Effects == {"allow", "deny"}
LatticePermissions == {"read", "write", "delete", "create", "manage"}

\* The rows of the business tables: a site, a plan on it, a sensor on the plan.
\* fk is the row's parent foreign key (site_id, plan_id), Null when it has none.
BusinessRows ==
    { [kind |-> "site",   id |-> "s1", fk |-> Null],
      [kind |-> "plan",   id |-> "p1", fk |-> Some("s1")],
      [kind |-> "sensor", id |-> "x1", fk |-> Some("p1")] }

\* The resources checks are made on: the business rows, the group, one catalog row.
Resources ==
    { <<"site", "s1">>, <<"plan", "p1">>, <<"sensor", "x1">>,
      <<"group", "ops">>, <<"hardware", "hw1">> }

(***************************************************************************)
(* services/hierarchy.py                                                   *)
(***************************************************************************)
\* HIERARCHY_CONFIG: kind -> parent_type ("" is Python None).  The catalog
\* kinds have no entry.
HIERARCHY_CONFIG ==
    [k \in {"alert", "alarm", "sensor", "broker", "plan", "site",
            "group", "user", "dashboard"} |->
        CASE k = "alert"  -> "alarm"
          [] k = "alarm"  -> "sensor"
          [] k = "sensor" -> "plan"
          [] k = "broker" -> "plan"
          [] k = "plan"   -> "site"
          [] OTHER        -> ""]

\* The while loop of get_ancestors: from (current_type, current_id) upward.
RECURSIVE walk(_, _, _, _)
walk(ancestors, current_type, current_id, depth) ==
    IF current_type \notin DOMAIN HIERARCHY_CONFIG \/ HIERARCHY_CONFIG[current_type] = ""
    THEN ancestors
    ELSE LET found == {r \in BusinessRows : r.kind = current_type /\ r.id = current_id}
         IN  IF found = {} THEN ancestors
             ELSE LET resource == CHOOSE r \in found : TRUE
                  IN  IF resource.fk = Null THEN ancestors
                      ELSE walk(Append(ancestors,
                                       <<HIERARCHY_CONFIG[current_type], TheValue(resource.fk), depth>>),
                                HIERARCHY_CONFIG[current_type], TheValue(resource.fk), depth + 1)

get_ancestors(resource_type, resource_id) ==
    IF resource_type \notin DOMAIN HIERARCHY_CONFIG THEN <<>>
    ELSE IF HIERARCHY_CONFIG[resource_type] = "" THEN << <<resource_type, resource_id, 0>> >>
    ELSE walk(<< <<resource_type, resource_id, 0>> >>, resource_type, resource_id, 1)

\* next((d for rt, ri, d in ancestors if rt == type and ri == id), None)
depth_of(ancestors, rtype, rid) ==
    LET hits == {i \in 1..Len(ancestors) : ancestors[i][1] = rtype /\ ancestors[i][2] = rid}
    IN  IF hits = {} THEN Null
        ELSE Some(ancestors[CHOOSE i \in hits : \A j \in hits : i <= j][3])

(***************************************************************************)
(* services/cache_service.py                                               *)
(***************************************************************************)
\* make_permission_key: perm:{user_id}:{resource_type}:{resource_id}:{permission}
make_permission_key(user_id, resource_type, resource_id, permission) ==
    [user |-> user_id, rtype |-> resource_type, rid |-> resource_id, perm |-> permission]

\* make_user_groups_key: user_groups:{user_id}
make_user_groups_key(user_id) == user_id   \* the key space cacheGroups holds only these

\* CacheService.get on a key space c (a function from the keys present to
\* their values): None when the cache is unavailable or the key is absent.
cache_get(c, on, key) ==
    IF ~on THEN Null
    ELSE IF key \in DOMAIN c THEN Some(c[key]) ELSE Null

\* CacheService.set (setex): no effect when the cache is unavailable.
cache_set(c, on, key, value) ==
    IF ~on THEN c
    ELSE [k \in DOMAIN c \cup {key} |-> IF k = key THEN value ELSE c[k]]

\* get_permission: the cached {"allowed", "fields"} as a tuple, or None.
get_permission(c, on, user_id, resource_type, resource_id, permission) ==
    LET result == cache_get(c, on, make_permission_key(user_id, resource_type, resource_id, permission))
    IN  IF result # Null
        THEN Some(<<TheValue(result).allowed, TheValue(result).fields>>)
        ELSE Null

\* A set_permission that files every result under the read key.
set_permission_under_read(c, on, user_id, resource_type, resource_id, permission, allowed, fields) ==
    cache_set(c, on, make_permission_key(user_id, resource_type, resource_id, "read"),
              [allowed |-> allowed, fields |-> fields])

set_permission(c, on, user_id, resource_type, resource_id, permission, allowed, fields) ==
    cache_set(c, on, make_permission_key(user_id, resource_type, resource_id, permission),
              [allowed |-> allowed, fields |-> fields])

\* delete_pattern / delete: drop the keys the pattern matched.
cache_delete(c, on, keys) ==
    IF ~on THEN c
    ELSE [k \in DOMAIN c \ keys |-> c[k]]

(***************************************************************************)
(* services/permission_service.py: tables                                  *)
(***************************************************************************)
CatalogKinds == {"hardware", "datatype", "protocol", "parser", "manufacturer",
                 "communication_mode"}

\* A table with no default at all.
DEFAULTS_NONE == [k \in CatalogKinds |-> [p \in Permissions |-> ""]]

\* RESOURCE_DEFAULTS[kind].get(permission): TRUE, "admin_only", or "" (None)
RESOURCE_DEFAULTS ==
    [k \in CatalogKinds |->
        [p \in Permissions |->
            CASE p = "read" -> "True"
              [] p \in {"write", "delete", "create"} -> "admin_only"
              [] OTHER -> ""]]

\* The table with the row of read cut down to read and manage.
HIERARCHY_READ_FROM_MANAGE_ONLY ==
    [p \in LatticePermissions |->
        CASE p = "read"   -> {"read", "manage"}
          [] p = "write"  -> {"write", "manage"}
          [] p = "delete" -> {"delete", "manage"}
          [] p = "create" -> {"create", "manage"}
          [] p = "manage" -> {"manage"}]

PERMISSION_HIERARCHY ==
    [p \in LatticePermissions |->
        CASE p = "read"   -> {"read", "write", "delete", "create", "manage"}
          [] p = "write"  -> {"write", "manage"}
          [] p = "delete" -> {"delete", "manage"}
          [] p = "create" -> {"create", "manage"}
          [] p = "manage" -> {"manage"}]

\* No expansion: only the requested permission itself.
expand_exact(permission) == {permission}

\* PERMISSION_HIERARCHY.get(permission, [permission])
expand_permission(permission) ==
    IF permission \in DOMAIN PERMISSION_HIERARCHY
    THEN PERMISSION_HIERARCHY[permission]
    ELSE {permission}

\* expires_at IS NULL OR expires_at > utcnow()
not_expired(row, t) ==
    row.expires_at = Null \/ TheValue(row.expires_at) > t

(***************************************************************************)
(* The state a request sees: the store, the two key spaces of the cache,   *)
(* whether the cache is available, and the time.                           *)
(***************************************************************************)
Here == [store |-> store, cachePerm |-> cachePerm, cacheGroups |-> cacheGroups,
         cacheOn |-> cacheOn, now |-> now]

\* The rows of a bag, each copy on its own: <<row, k>> is the k-th copy.
RowsOf(S) == UNION {{<<r, k>> : k \in 1..CopiesIn(r, S)} : r \in BagToSet(S)}

(***************************************************************************)
(* get_user_groups                                                         *)
(***************************************************************************)
\* The SELECT without its test of the permission: any live allow row the
\* user holds on a group.
select_groups_any_permission(S, t, user_id) ==
    {r.resource_id : r \in {x \in BagToSet(S) :
        /\ x.grantee_type = "user"
        /\ x.grantee_id = user_id
        /\ x.resource_type = "group"
        /\ x.effect = "allow"
        /\ not_expired(x, t)}}

\* The SELECT of get_user_groups: live allow member rows held by the user.
select_user_groups(S, t, user_id) ==
    {r.resource_id : r \in {x \in BagToSet(S) :
        /\ x.grantee_type = "user"
        /\ x.grantee_id = user_id
        /\ x.resource_type = "group"
        /\ x.permission = "member"
        /\ x.effect = "allow"
        /\ not_expired(x, t)}}

\* get_user_groups: the cached list when there is one, else the SELECT,
\* which is then cached.  Returns the list and the membership key space.
get_user_groups(st, user_id) ==
    LET cached_groups == cache_get(st.cacheGroups, st.cacheOn, make_user_groups_key(user_id))
    IN  IF cached_groups # Null
        THEN [group_ids |-> TheValue(cached_groups), cacheGroups |-> st.cacheGroups]
        ELSE LET group_ids == select_user_groups(st.store, st.now, user_id)
             IN  [group_ids |-> group_ids,
                  cacheGroups |-> cache_set(st.cacheGroups, st.cacheOn,
                                            make_user_groups_key(user_id), group_ids)]

(***************************************************************************)
(* PermissionService.check                                                 *)
(***************************************************************************)
\* Step 6, the WHERE clause of the single query.
select_permissions(S, t, user_id, group_ids, ancestors, perms_to_check) ==
    {rc \in RowsOf(S) :
        LET x == rc[1] IN
        /\ \/ x.grantee_type = "user" /\ x.grantee_id = user_id
           \/ x.grantee_type = "group" /\ x.grantee_id \in group_ids
        /\ \E i \in 1..Len(ancestors) :
              x.resource_type = ancestors[i][1] /\ x.resource_id = ancestors[i][2]
        /\ x.permission \in perms_to_check
        /\ not_expired(x, t)}

RECURSIVE Orderings(_)
Orderings(S) ==
    IF S = {} THEN {<<>>}
    ELSE UNION {{<<x>> \o p : p \in Orderings(S \ {x})} : x \in S}

\* No ORDER BY: the rows in any order.
any_order(rows) == Orderings(rows)

\* ORDER BY effect DESC: every deny row before every allow row; the order
\* among the rows of one effect is the database's choice.
order_by_effect_desc(rows) ==
    {d \o a : d \in Orderings({rc \in rows : rc[1].effect = "deny"}),
              a \in Orderings({rc \in rows : rc[1].effect = "allow"})}

\* The gate left open: no row is skipped for its inherit flag.
inherit_unchecked(perm, depth) == FALSE

\* if depth > 0 and not perm.inherit: continue
not_inheritable_on_ancestor(perm, depth) == depth > 0 /\ ~perm.inherit

\* Step 7, the for loop from row i on.  decided is the result of an early
\* return (Null when the loop runs to its end), allowed_fields the
\* accumulated list.
RECURSIVE resolve(_, _, _, _)
resolve(permissions, i, ancestors, allowed_fields) ==
    IF i > Len(permissions)
    THEN [decided |-> Null, allowed_fields |-> allowed_fields]
    ELSE LET perm == permissions[i][1]
             depth == depth_of(ancestors, perm.resource_type, perm.resource_id)
         IN  IF depth = Null
             THEN resolve(permissions, i + 1, ancestors, allowed_fields)
             ELSE IF not_inheritable_on_ancestor(perm, TheValue(depth))
             THEN resolve(permissions, i + 1, ancestors, allowed_fields)
             ELSE IF perm.effect = "deny"
             THEN [decided |-> Some(<<FALSE, Null>>), allowed_fields |-> allowed_fields]
             ELSE IF perm.fields = Null
             THEN [decided |-> Some(<<TRUE, Null>>), allowed_fields |-> allowed_fields]
             ELSE resolve(permissions, i + 1, ancestors,
                          allowed_fields \cup TheValue(perm.fields))

\* Steps 7 to 9 for one order of the rows: the result of check.
decide(permissions, ancestors, resource_type, permission) ==
    LET r == resolve(permissions, 1, ancestors, {})
    IN  IF r.decided # Null THEN TheValue(r.decided)
        ELSE IF r.allowed_fields # {} THEN <<TRUE, Some(r.allowed_fields)>>
        ELSE IF resource_type \in DOMAIN RESOURCE_DEFAULTS
                /\ RESOURCE_DEFAULTS[resource_type][permission] = "True"
        THEN <<TRUE, Null>>
        ELSE <<FALSE, Null>>

\* Steps 2 to 10 of check in state st: the set of the possible outcomes, one
\* per order the query may return.  An outcome is the returned tuple, the
\* two key spaces after the call, and the keys the call passed to cache.get
\* or cache.set.
check_non_admin(st, user, resource_type, resource_id, permission) ==
    LET key == make_permission_key(user, resource_type, resource_id, permission)
        cached_result == get_permission(st.cachePerm, st.cacheOn, user,
                                        resource_type, resource_id, permission)
    IN  IF cached_result # Null
        THEN {[result |-> TheValue(cached_result), cachePerm |-> st.cachePerm,
               cacheGroups |-> st.cacheGroups, permKeys |-> {key}, groupKeys |-> {}]}
        ELSE
        LET g == get_user_groups(st, user)
            ancestors == get_ancestors(resource_type, resource_id)
            perms_to_check == expand_permission(permission)
            rows == select_permissions(st.store, st.now, user, g.group_ids,
                                       ancestors, perms_to_check)
        IN  {LET result == decide(permissions, ancestors, resource_type, permission)
             IN  [result |-> result,
                  cachePerm |-> set_permission(st.cachePerm, st.cacheOn, user,
                                    resource_type, resource_id, permission,
                                    result[1], result[2]),
                  cacheGroups |-> g.cacheGroups,
                  permKeys |-> {key}, groupKeys |-> {make_user_groups_key(user)}]
             : permissions \in order_by_effect_desc(rows)}

\* check without step 1: the superuser is evaluated like everyone else.
check_without_bypass(st, user, resource_type, resource_id, permission) ==
    check_non_admin(st, user, resource_type, resource_id, permission)

\* check(user, resource_type, resource_id, permission) in state st: step 1,
\* the admin bypass, then steps 2 to 10.
check(st, user, resource_type, resource_id, permission) ==
    IF is_admin[user]
    THEN {[result |-> <<TRUE, Null>>, cachePerm |-> st.cachePerm,
           cacheGroups |-> st.cacheGroups, permKeys |-> {}, groupKeys |-> {}]}
    ELSE check_non_admin(st, user, resource_type, resource_id, permission)

(***************************************************************************)
(* Cache invalidation (cache_service.py) on the two key spaces.            *)
(***************************************************************************)
\* delete_pattern("perm:{user_id}:*") and delete("user_groups:{user_id}")
invalidate_user_permissions(c, on, user_id) ==
    [cachePerm |-> cache_delete(c.cachePerm, on,
                       {k \in DOMAIN c.cachePerm : k.user = user_id}),
     cacheGroups |-> cache_delete(c.cacheGroups, on, {make_user_groups_key(user_id)})]

\* delete_pattern("perm:*:{resource_type}:{resource_id}:*"); the ancestors
\* key it also deletes is never written.
invalidate_resource_permissions(c, on, resource_type, resource_id) ==
    [cachePerm |-> cache_delete(c.cachePerm, on,
                       {k \in DOMAIN c.cachePerm :
                           k.rtype = resource_type /\ k.rid = resource_id}),
     cacheGroups |-> c.cacheGroups]

\* The group id taken for a user id: only the keys perm:{group_id}:* go.
invalidate_group_as_user(c, on, group_id) ==
    [cachePerm |-> cache_delete(c.cachePerm, on,
                       {k \in DOMAIN c.cachePerm : k.user = group_id}),
     cacheGroups |-> c.cacheGroups]

\* delete_pattern("perm:*")
invalidate_group_permissions(c, on, group_id) ==
    [cachePerm |-> cache_delete(c.cachePerm, on, DOMAIN c.cachePerm),
     cacheGroups |-> c.cacheGroups]

\* The invalidations grant and revoke both make after their commit.
invalidate_after_change(c, on, row) ==
    LET c1 == IF row.grantee_type = "user"
              THEN invalidate_user_permissions(c, on, row.grantee_id)
              ELSE invalidate_group_permissions(c, on, row.grantee_id)
        c2 == invalidate_resource_permissions(c1, on, row.resource_type, row.resource_id)
    IN  IF row.resource_type = "group" /\ row.permission = "member"
        THEN invalidate_user_permissions(c2, on, row.grantee_id)
        ELSE c2

(***************************************************************************)
(* PermissionService.grant / revoke                                        *)
(***************************************************************************)
\* A row of resource_permissions (id, granted_by and granted_at left out).
Row(gt, gid, rt, rid, p, e, inh, f, exp) ==
    [grantee_type |-> gt, grantee_id |-> gid, resource_type |-> rt,
     resource_id |-> rid, permission |-> p, effect |-> e, inherit |-> inh,
     fields |-> f, expires_at |-> exp]

\* db.add(perm); commit: the table has no unique constraint.
store_add(S, row) == S (+) SetToBag({row})

\* db.delete(perm); commit
store_delete(S, row) == S (-) SetToBag({row})

\* grant: insert the row, then invalidate.
grant(st, row) ==
    LET c == invalidate_after_change(
                 [cachePerm |-> st.cachePerm, cacheGroups |-> st.cacheGroups],
                 st.cacheOn, row)
    IN  [store |-> store_add(st.store, row),
         cachePerm |-> c.cachePerm, cacheGroups |-> c.cacheGroups]

\* revoke of the id of a stored row: delete the row, then invalidate.
revoke(st, row) ==
    LET c == invalidate_after_change(
                 [cachePerm |-> st.cachePerm, cacheGroups |-> st.cacheGroups],
                 st.cacheOn, row)
    IN  [store |-> store_delete(st.store, row),
         cachePerm |-> c.cachePerm, cacheGroups |-> c.cacheGroups]

(***************************************************************************)
(* Listings                                                                *)
(***************************************************************************)
list_for_resource(S, resource_type, resource_id) ==
    {rc \in RowsOf(S) : rc[1].resource_type = resource_type
                        /\ rc[1].resource_id = resource_id}

list_for_user(S, user_id) ==
    {rc \in RowsOf(S) : rc[1].grantee_type = "user" /\ rc[1].grantee_id = user_id}

\* User.get_groups: the ids of the groups of the live member rows.
user_get_groups(S, t, user_id) == select_user_groups(S, t, user_id) \cap Groups

\* list_my_permissions: the user's rows and the rows of the user's groups.
list_my_permissions(S, t, user_id) ==
    LET group_ids == user_get_groups(S, t, user_id)
    IN  list_for_user(S, user_id) \cup
        {rc \in RowsOf(S) : rc[1].grantee_type = "group" /\ rc[1].grantee_id \in group_ids}

\* get_permission_matrix, the rows that fill a cell: the rows on the
\* resource and its ancestors, less the non-inherited rows of ancestors.
matrix_rows(S, resource_type, resource_id) ==
    LET ancestors == get_ancestors(resource_type, resource_id)
    IN  {rc \in RowsOf(S) :
            LET depth == depth_of(ancestors, rc[1].resource_type, rc[1].resource_id)
            IN  /\ depth # Null
                /\ ~(TheValue(depth) > 0 /\ ~rc[1].inherit)}

\* The cells of the matrix: (grantee, permission) -> allowed, for the
\* permissions the response shows.
get_permission_matrix(S, resource_type, resource_id) ==
    {[grantee_type |-> rc[1].grantee_type, grantee_id |-> rc[1].grantee_id,
      permission |-> rc[1].permission,
      allowed |-> \E o \in matrix_rows(S, resource_type, resource_id) :
                      /\ o[1].grantee_type = rc[1].grantee_type
                      /\ o[1].grantee_id = rc[1].grantee_id
                      /\ o[1].permission = rc[1].permission
                      /\ o[1].effect = "allow"]
     : rc \in {x \in matrix_rows(S, resource_type, resource_id) :
                  x[1].permission \in LatticePermissions}}

(***************************************************************************)
(* Inputs                                                                  *)
(***************************************************************************)
\* The member row that puts a user into the group ops (auto_grant_member:
\* inherit = false, effect = allow).
MemberRow(user_id, exp) ==
    Row("user", user_id, "group", "ops", "member", "allow", FALSE, Null, exp)

\* Grants issued while the cache and the clock run: read grants on the site
\* to the user or the group, with or without an expiry; the membership of
\* alice; a deny held by the superuser.
LifecycleInputs ==
    {Row(g[1], g[2], "site", "s1", "read", e, TRUE, Null, exp) :
        g \in {<<"user", "alice">>, <<"group", "ops">>}, e \in Effects,
        exp \in {Null, Some(1)}}
    \cup {MemberRow("alice", exp) : exp \in {Null, Some(1)}}
    \cup {Row("user", "root", "site", "s1", "read", "deny", TRUE, Null, Null)}

\* Where the engine's grants are placed (grantee, resource, inherit): on the
\* plan itself, on its site with and without inheritance, and on the site
\* through the group.
Placements ==
    { <<"user", "alice", "plan", "p1", TRUE>>,
      <<"user", "alice", "site", "s1", TRUE>>,
      <<"user", "alice", "site", "s1", FALSE>>,
      <<"group", "ops", "site", "s1", TRUE>> }

\* What they grant (permission, effect, fields): every lattice permission
\* with either effect and no field list, and write with a field list.
Contents ==
    {<<p, e, Null>> : p \in LatticePermissions, e \in Effects}
    \cup {<<"write", "allow", Some(f)>> : f \in {{}, {"a"}, {"b"}}}

\* Grants the decision engine is evaluated on: every content at every
\* placement; a row already expired at the instant of the checks; rows on
\* a catalog resource.
EngineInputs ==
    {Row(w[1], w[2], w[3], w[4], c[1], c[2], w[5], c[3], Null) :
        w \in Placements, c \in Contents}
    \cup {Row("user", "alice", "plan", "p1", "read", "deny", TRUE, Null, Some(1))}
    \cup {Row("user", "alice", "hardware", "hw1", "read", e, TRUE, Null, Null) :
        e \in Effects}

\* The checks that are run (and cached) while the cache is on.
Probes ==
    {<<u, r, p>> : u \in {"alice", "root"},
                   r \in {<<"site", "s1">>, <<"plan", "p1">>},
                   p \in {"read", "write"}}

(***************************************************************************)
(* Actions                                                                 *)
(***************************************************************************)
\* PermissionService.grant(row)
Grant(row) ==
    /\ BagCardinality(store) < MaxRows
    /\ LET r == grant(Here, row)
       IN  /\ store' = r.store
           /\ cachePerm' = r.cachePerm
           /\ cacheGroups' = r.cacheGroups
    /\ UNCHANGED <<cacheOn, now>>

\* PermissionService.revoke(id of a copy of row)
Revoke(row) ==
    /\ BagIn(row, store)
    /\ LET r == revoke(Here, row)
       IN  /\ store' = r.store
           /\ cachePerm' = r.cachePerm
           /\ cacheGroups' = r.cacheGroups
    /\ UNCHANGED <<cacheOn, now>>

\* PermissionService.check(user, resource, permission)
Check(user, res, permission) ==
    /\ \E o \in check(Here, user, res[1], res[2], permission) :
          /\ cachePerm' = o.cachePerm
          /\ cacheGroups' = o.cacheGroups
    /\ UNCHANGED <<store, cacheOn, now>>

\* The listings read the store and change nothing.
List ==
    /\ \A r \in Resources, u \in Users :
          /\ list_for_resource(store, r[1], r[2]) \subseteq RowsOf(store)
          /\ list_my_permissions(store, now, u) \subseteq RowsOf(store)
          /\ matrix_rows(store, r[1], r[2]) \subseteq RowsOf(store)
    /\ UNCHANGED <<store, cachePerm, cacheGroups, cacheOn, now>>

\* A cached key reaches its TTL (setex) and Redis drops it.
TtlExpire ==
    /\ \/ \E k \in DOMAIN cachePerm :
             /\ cachePerm' = [x \in DOMAIN cachePerm \ {k} |-> cachePerm[x]]
             /\ UNCHANGED cacheGroups
       \/ \E u \in DOMAIN cacheGroups :
             /\ cacheGroups' = [x \in DOMAIN cacheGroups \ {u} |-> cacheGroups[x]]
             /\ UNCHANGED cachePerm
    /\ UNCHANGED <<store, cacheOn, now>>

\* The clock advances by one instant.
Tick ==
    /\ now < MaxTime
    /\ now' = now + 1
    /\ UNCHANGED <<store, cachePerm, cacheGroups, cacheOn>>

EmptyCache == [k \in {} |-> {}]

\* Job ids of add_jobs.
JobIds == {"expire_permissions", "notify_expiring_permissions",
           "notify_expiring_permissions_monthly"}

\* No request in flight, no audit row, no created row, every job idle.
InitExtras ==
    /\ inflight = {}
    /\ audit = EmptyBag
    /\ last = Null
    /\ created = {}
    /\ sched = [j \in JobIds |-> [running |-> 0, missed |-> 0]]

(***************************************************************************)
(* Spec: the service with the cache on and the clock running.              *)
(***************************************************************************)
Init ==
    /\ store = EmptyBag
    /\ cachePerm = EmptyCache
    /\ cacheGroups = EmptyCache
    /\ cacheOn = TRUE
    /\ now = 0
    /\ pre = Null
    /\ InitExtras

Next ==
    \/ \E row \in LifecycleInputs : Grant(row) /\ UNCHANGED <<pre, extras>>
    \/ \E row \in LifecycleInputs : Revoke(row) /\ UNCHANGED <<pre, extras>>
    \/ \E c \in Probes : Check(c[1], c[2], c[3]) /\ UNCHANGED <<pre, extras>>
    \/ List /\ UNCHANGED <<pre, extras>>
    \/ TtlExpire /\ UNCHANGED <<pre, extras>>
    \/ Tick /\ UNCHANGED <<pre, extras>>

Spec == Init /\ [][Next]_vars

(***************************************************************************)
(* SpecEngine: the decision engine with CACHE_ENABLED off, at instant 1,   *)
(* on a store seeded with or without the membership of alice.              *)
(***************************************************************************)
InitEngine ==
    /\ store \in {EmptyBag, SetToBag({MemberRow("alice", Null)})}
    /\ cachePerm = EmptyCache
    /\ cacheGroups = EmptyCache
    /\ cacheOn = FALSE
    /\ now = 1
    /\ pre = Null
    /\ InitExtras

NextEngine(Inputs) ==
    \/ \E row \in Inputs : Grant(row) /\ UNCHANGED <<pre, extras>>
    \/ \E row \in Inputs \cup {MemberRow("alice", Null)} : Revoke(row) /\ UNCHANGED <<pre, extras>>
    \/ \E c \in Probes : Check(c[1], c[2], c[3]) /\ UNCHANGED <<pre, extras>>

SpecEngine == InitEngine /\ [][NextEngine(EngineInputs)]_vars

(***************************************************************************)
(* What the claims speak of, in their own terms.                           *)
(***************************************************************************)
NonAdmins == {u \in Users : ~is_admin[u]}

\* The results check can return in state st.
Results(st, u, r, p) == {o.result : o \in check(st, u, r[1], r[2], p)}

\* The state with store S and nothing cached.
Fresh(S) == [store |-> S, cachePerm |-> EmptyCache, cacheGroups |-> EmptyCache,
             cacheOn |-> cacheOn, now |-> now]

\* The live rows of S, each copy on its own.
LiveRows(S) == {rc \in RowsOf(S) :
                   rc[1].expires_at = Null \/ TheValue(rc[1].expires_at) > now}

\* The groups u is a member of: a live allow member row on the group.
MemberOf(S, u) ==
    {g \in Groups : \E rc \in LiveRows(S) :
        rc[1] = [rc[1] EXCEPT !.grantee_type = "user", !.grantee_id = u,
                              !.resource_type = "group", !.resource_id = g,
                              !.permission = "member", !.effect = "allow"]}

\* The chain of r: r itself at depth 0, then its parents by foreign key; a
\* standalone or catalog resource is its whole chain.
Chain(r) ==
    IF r[1] \in CatalogKinds THEN {<<r[1], r[2], 0>>}
    ELSE {get_ancestors(r[1], r[2])[i] : i \in 1..Len(get_ancestors(r[1], r[2]))}

\* The strength closure of p: the permissions that satisfy a request for p.
Closure(p) ==
    {q \in Permissions :
        \/ q = p
        \/ q = "manage" /\ p \in LatticePermissions
        \/ p = "read" /\ q \in {"write", "delete", "create"}}

\* The live rows applicable to u on r: held by u or a group of u, placed on
\* r or on an ancestor of r with inherit = true.
Applicable(S, u, r) ==
    LET groups == MemberOf(S, u)
        chain == Chain(r)
    IN  {rc \in LiveRows(S) :
            /\ \/ rc[1].grantee_type = "user" /\ rc[1].grantee_id = u
               \/ rc[1].grantee_type = "group" /\ rc[1].grantee_id \in groups
            /\ \E a \in chain :
                  /\ rc[1].resource_type = a[1] /\ rc[1].resource_id = a[2]
                  /\ (a[3] = 0 \/ rc[1].inherit)}

ApplicableTo(S, u, r, p, effect) ==
    {rc \in Applicable(S, u, r) :
        rc[1].permission \in Closure(p) /\ rc[1].effect = effect}

(***************************************************************************)
(* C1 - C6: the decision engine                                            *)
(***************************************************************************)
\* The state with a decision cache that holds a refusal under the very key
\* of the check (u, r, p).
Poisoned(u, r, p) ==
    [Here EXCEPT !.cacheOn = TRUE,
                 !.cachePerm = cache_set(cachePerm, TRUE,
                                  make_permission_key(u, r[1], r[2], p),
                                  [allowed |-> FALSE, fields |-> Null])]

\* C1: for a superuser every check returns (True, None), whatever rows the
\* store holds and whatever the cache holds (even a refusal cached under the
\* check's own key), and the call passes no key to the cache and leaves
\* both key spaces as they were.
C1_SuperuserBypass ==
    \A u \in Users, r \in Resources, p \in Permissions :
        is_admin[u] =>
            \A st \in {Here, Poisoned(u, r, p)} :
                \A o \in check(st, u, r[1], r[2], p) :
                    /\ o.result = <<TRUE, Null>>
                    /\ o.permKeys = {} /\ o.groupKeys = {}
                    /\ o.cachePerm = st.cachePerm
                    /\ o.cacheGroups = st.cacheGroups

\* A deny held by the superuser on the site is stored and decisions are
\* cached, and the superuser's read of the site is still allowed.
C1_Witness ==
    /\ BagIn(Row("user", "root", "site", "s1", "read", "deny", TRUE, Null, Null), store)
    /\ DOMAIN cachePerm # {}
    /\ Results(Here, "root", <<"site", "s1">>, "read") = {<<TRUE, Null>>}

\* C2: for a non-admin user and a check computed from the store, one
\* applicable live deny makes the result (False, None), on every resource
\* kind, however many allows are applicable.
C2_DenyWins ==
    \A u \in NonAdmins, r \in Resources, p \in Permissions :
        ApplicableTo(store, u, r, p, "deny") # {} =>
            Results(Fresh(store), u, r, p) = {<<FALSE, Null>>}

Satisfies(g, p) ==
    g = p \/ g = "manage" \/ (p = "read" /\ g \in {"write", "delete", "create"})

\* C4: when the only applicable row of a non-admin user on a non-catalog
\* resource is one unrestricted allow of permission g, check for p returns
\* (True, None) if g satisfies p and (False, None) otherwise.
C4_SingleGrant ==
    \A u \in NonAdmins, r \in Resources :
        (r[1] \notin CatalogKinds /\ Cardinality(Applicable(store, u, r)) = 1) =>
            LET g == (CHOOSE rc \in Applicable(store, u, r) : TRUE)[1]
            IN  (g.effect = "allow" /\ g.fields = Null /\ g.permission \in LatticePermissions)
                => \A p \in LatticePermissions :
                      Results(Fresh(store), u, r, p) =
                          IF Satisfies(g.permission, p) THEN {<<TRUE, Null>>}
                                                        ELSE {<<FALSE, Null>>}

\* The only row is a write allow on the site: on the plan below it read and
\* write are allowed, delete and manage are not.
C4_Witness ==
    /\ store = SetToBag({Row("user", "alice", "site", "s1", "write", "allow", TRUE, Null, Null)})
    /\ Results(Fresh(store), "alice", <<"plan", "p1">>, "read") = {<<TRUE, Null>>}
    /\ Results(Fresh(store), "alice", <<"plan", "p1">>, "delete") = {<<FALSE, Null>>}
    /\ Results(Fresh(store), "alice", <<"plan", "p1">>, "manage") = {<<FALSE, Null>>}

\* F2 covers F1: all fields, or a list that contains the list F1.
Covers(F2, F1) ==
    F2 = Null \/ (F1 # Null /\ TheValue(F1) \subseteq TheValue(F2))

\* The checks of u on r, one entry per lattice permission p: p, the results
\* of check for p, and whether no applicable deny matches a request for p.
ResultTable(u, r) ==
    LET rows == Applicable(store, u, r)
        fresh == Fresh(store)
    IN  {<<p, Results(fresh, u, r, p),
           \A rc \in rows : ~(rc[1].effect = "deny" /\ rc[1].permission \in Closure(p))>>
         : p \in LatticePermissions}

\* The weaker permission of entry b follows from the stronger one of entry a.
Monotone(a, b) ==
    \A res \in a[2] :
        res[1] => \A res2 \in b[2] : res2[1] /\ Covers(res2[2], res[2])

\* C5 as claimed: if check for p is allowed with fields F and p implies q,
\* then check for q is allowed with all fields or a superset of F, for
\* every store.
C5_Monotone_AsClaimed ==
    \A u \in NonAdmins, r \in Resources :
        LET t == ResultTable(u, r)
        IN  \A a \in t : \A b \in t : Satisfies(a[1], b[1]) => Monotone(a, b)

\* C5 as amended: the same, for the stores in which no applicable deny
\* matches the request for the weaker permission q.
C5_Monotone ==
    \A u \in NonAdmins, r \in Resources :
        LET t == ResultTable(u, r)
        IN  \A a \in t : \A b \in t : (Satisfies(a[1], b[1]) /\ b[3]) => Monotone(a, b)

\* The member alice holds, through the group, an allow of write on the
\* fields {a} of the site: write of the plan is allowed on {a}, and so is
\* the weaker read.
C5_Witness ==
    /\ "ops" \in MemberOf(store, "alice")
    /\ BagIn(Row("group", "ops", "site", "s1", "write", "allow", TRUE, Some({"a"}), Null), store)
    /\ Results(Fresh(store), "alice", <<"plan", "p1">>, "write") = {<<TRUE, Some({"a"})>>}
    /\ Results(Fresh(store), "alice", <<"plan", "p1">>, "read") = {<<TRUE, Some({"a"})>>}

\* The union of the field lists of a set of rows.
FieldUnion(rows) == UNION {TheValue(rc[1].fields) : rc \in rows}

\* C6: when no deny is applicable and some allow is, the result is
\* (True, None) if an applicable allow has no field list, and otherwise
\* (True, F) with F the union of the field lists of the applicable allows.
C6_FieldUnion ==
    \A u \in NonAdmins, r \in Resources, p \in Permissions :
        LET allows == ApplicableTo(store, u, r, p, "allow")
        IN  (ApplicableTo(store, u, r, p, "deny") = {} /\ allows # {}) =>
                Results(Fresh(store), u, r, p) =
                    IF \E rc \in allows : rc[1].fields = Null
                    THEN {<<TRUE, Null>>}
                    ELSE {<<TRUE, Some(FieldUnion(allows))>>}

(***************************************************************************)
(* C7 - C9: expiry, listings, uniqueness                                   *)
(***************************************************************************)
\* The rows of S whose expires_at is at or before now, each copy on its own.
ExpiredRows(S) == RowsOf(S) \ LiveRows(S)

\* S without its expired rows.
WithoutExpired(S) ==
    LET live == {rc[1] : rc \in LiveRows(S)}
    IN  [r \in live |-> CopiesIn(r, S)]

\* C7: once a stored grant has reached its expires_at, every check returns
\* the decision of the store without it, whatever was cached before.
C7_ExpiredIsInert ==
    ExpiredRows(store) # {} =>
        \A c \in Probes :
            Results(Here, c[1], c[2], c[3]) = Results(Fresh(WithoutExpired(store)), c[1], c[2], c[3])

\* C8: no listing returns a grant whose expires_at is at or before now.
C8_ListingsHideExpired ==
    \A r \in Resources, u \in Users :
        /\ list_for_resource(store, r[1], r[2]) \cap ExpiredRows(store) = {}
        /\ list_for_user(store, u) \cap ExpiredRows(store) = {}
        /\ list_my_permissions(store, now, u) \cap ExpiredRows(store) = {}
        /\ get_permission_matrix(store, r[1], r[2])
               = get_permission_matrix(WithoutExpired(store), r[1], r[2])

\* The uniqueness key of a row.
UniqueKey(row) ==
    <<row.grantee_type, row.grantee_id, row.resource_type, row.resource_id, row.permission>>

\* C9: the store never holds two live grants with the same (grantee,
\* resource, permission); issuing the second one is rejected.
C9_Unique ==
    \A rc1 \in LiveRows(store), rc2 \in LiveRows(store) :
        UniqueKey(rc1[1]) = UniqueKey(rc2[1]) => rc1 = rc2

(***************************************************************************)
(* C10: grant then revoke.  SpecRoundTrip runs grants, revokes and checks  *)
(* one at a time with the cache on and the clock held, and remembers in    *)
(* pre what every check returned before the latest grant.                  *)
(***************************************************************************)
\* Grants of the round trips: read on the site, allowed or denied, to the
\* user or the group, and the memberships of alice and bob.
RoundTripInputs ==
    {Row(g[1], g[2], "site", "s1", "read", e, TRUE, Null, Null) :
        g \in {<<"user", "alice">>, <<"group", "ops">>}, e \in Effects}
    \cup {MemberRow(u, Null) : u \in {"alice", "bob"}}

\* The checks of the round trips: on the site and on the plan below it.
RoundTripChecks ==
    {<<u, r, "read">> : u \in NonAdmins, r \in {<<"site", "s1">>, <<"plan", "p1">>}}

\* What every check returns in the current state.
DecisionTable == [c \in RoundTripChecks |-> Results(Here, c[1], c[2], c[3])]

GrantTracked(row) ==
    /\ Grant(row)
    /\ UNCHANGED extras
    /\ pre' = Some([row |-> row, phase |-> "granted", before |-> DecisionTable])

RevokeTracked(row) ==
    /\ Revoke(row)
    /\ UNCHANGED extras
    /\ pre' = IF pre # Null /\ TheValue(pre).row = row /\ TheValue(pre).phase = "granted"
              THEN Some([TheValue(pre) EXCEPT !.phase = "revoked"])
              ELSE Null

InitRoundTrip ==
    /\ store = EmptyBag
    /\ cachePerm = EmptyCache
    /\ cacheGroups = EmptyCache
    /\ cacheOn = TRUE
    /\ now = 0
    /\ pre = Null
    /\ InitExtras

NextRoundTrip ==
    \/ \E row \in RoundTripInputs : GrantTracked(row)
    \/ \E row \in RoundTripInputs : RevokeTracked(row)
    \/ \E c \in RoundTripChecks : Check(c[1], c[2], c[3]) /\ UNCHANGED <<pre, extras>>
    \/ TtlExpire /\ UNCHANGED <<pre, extras>>

SpecRoundTrip == InitRoundTrip /\ [][NextRoundTrip]_vars

\* C10: after a grant and the revoke of the same grant, with checks in
\* between, every check returns what it returned before the grant; between
\* the grant and the revoke every check returns the decision of the store
\* that holds the grant.
C10_RoundTrip ==
    pre # Null =>
        LET h == TheValue(pre)
        IN  \A c \in RoundTripChecks :
                /\ h.phase = "revoked" => Results(Here, c[1], c[2], c[3]) = h.before[c]
                /\ h.phase = "granted" =>
                       Results(Here, c[1], c[2], c[3]) = Results(Fresh(store), c[1], c[2], c[3])

\* A read grant to the group was issued and revoked while the member bob had
\* decisions cached: bob's read of the plan, allowed in between, is refused
\* again as before the grant, and the refusal is cached.
C10_Witness ==
    /\ pre # Null
    /\ TheValue(pre).phase = "revoked"
    /\ TheValue(pre).row = Row("group", "ops", "site", "s1", "read", "allow", TRUE, Null, Null)
    /\ TheValue(pre).before[<<"bob", <<"plan", "p1">>, "read">>] = {<<FALSE, Null>>}
    /\ "ops" \in MemberOf(store, "bob")
    /\ make_permission_key("bob", "plan", "p1", "read") \in DOMAIN cachePerm
    /\ Results(Here, "bob", <<"plan", "p1">>, "read") = {<<FALSE, Null>>}

(***************************************************************************)
(* C11: checks that overlap a grant or a revoke.  In SpecConcurrent a      *)
(* check is a request of three steps, with an await between them: the      *)
(* cache lookup, the queries with the resolution, and the cache write.     *)
(* grant and revoke (commit, then invalidation) run between these steps.   *)
(* The clock is held and no grant carries an expiry.                       *)
(***************************************************************************)
MaxInflight == 2     \* requests in flight at a time

\* check, steps 1 and 2: the bypass and the cache lookup.  An admin and a
\* cache hit return at once; a miss leaves the request in flight.
CheckBegin(user, res, permission) ==
    /\ Cardinality(inflight) < MaxInflight
    /\ LET cached_result == get_permission(cachePerm, cacheOn, user, res[1], res[2], permission)
       IN  inflight' = IF is_admin[user] \/ cached_result # Null
                       THEN inflight
                       ELSE inflight \cup {[kind |-> "check", pc |-> "query", user |-> user,
                                            res |-> res, permission |-> permission,
                                            result |-> Null]}
    /\ UNCHANGED <<store, cachePerm, cacheGroups, cacheOn, now, pre, audit, last, created, sched>>

\* check, steps 3 to 9: the groups, the ancestors, the query and the
\* resolution; the result is held by the request.
CheckQuery(req) ==
    /\ req \in inflight /\ req.kind = "check" /\ req.pc = "query"
    /\ LET g == get_user_groups(Here, req.user)
           ancestors == get_ancestors(req.res[1], req.res[2])
           rows == select_permissions(store, now, req.user, g.group_ids, ancestors,
                                      expand_permission(req.permission))
       IN  /\ cacheGroups' = g.cacheGroups
           /\ \E permissions \in order_by_effect_desc(rows) :
                 inflight' = (inflight \ {req}) \cup
                     {[req EXCEPT !.pc = "set",
                                  !.result = Some(decide(permissions, ancestors,
                                                         req.res[1], req.permission))]}
    /\ UNCHANGED <<store, cachePerm, cacheOn, now, pre, audit, last, created, sched>>

\* check, step 10: cache.set_permission of the result, and the return.
CheckSet(req) ==
    /\ req \in inflight /\ req.kind = "check" /\ req.pc = "set"
    /\ cachePerm' = set_permission(cachePerm, cacheOn, req.user, req.res[1], req.res[2],
                                   req.permission, TheValue(req.result)[1],
                                   TheValue(req.result)[2])
    /\ inflight' = inflight \ {req}
    /\ UNCHANGED <<store, cacheGroups, cacheOn, now, pre, audit, last, created, sched>>

\* Grants issued beside the checks: read on the site to alice or to the
\* group, and the membership of alice.
ConcurrentInputs ==
    {Row("user", "alice", "site", "s1", "read", "allow", TRUE, Null, Null),
     Row("group", "ops", "site", "s1", "read", "allow", TRUE, Null, Null),
     MemberRow("alice", Null)}

ConcurrentChecks ==
    {<<u, r, "read">> : u \in {"alice", "root"}, r \in {<<"site", "s1">>, <<"plan", "p1">>}}

InitConcurrent ==
    /\ store = EmptyBag
    /\ cachePerm = EmptyCache
    /\ cacheGroups = EmptyCache
    /\ cacheOn = TRUE
    /\ now = 0
    /\ pre = Null
    /\ InitExtras

NextConcurrent ==
    \/ \E c \in ConcurrentChecks : CheckBegin(c[1], c[2], c[3])
    \/ \E req \in inflight : CheckQuery(req)
    \/ \E req \in inflight : CheckSet(req)
    \/ \E row \in ConcurrentInputs : Grant(row) /\ UNCHANGED <<pre, extras>>
    \/ \E row \in ConcurrentInputs : Revoke(row) /\ UNCHANGED <<pre, extras>>

SpecConcurrent == InitConcurrent /\ [][NextConcurrent]_vars

\* Every cached decision and every cached membership is the one the store
\* determines.
CacheAgreesWithStore ==
    /\ \A k \in DOMAIN cachePerm :
          <<cachePerm[k].allowed, cachePerm[k].fields>>
              \in Results(Fresh(store), k.user, <<k.rtype, k.rid>>, k.perm)
    /\ \A u \in DOMAIN cacheGroups : cacheGroups[u] = select_user_groups(store, now, u)

\* C11: when every grant and revoke has returned and no check is in
\* flight, the cache holds no decision computed from an earlier store, and
\* a check that starts now returns the decision of the current store.
C11_NoStaleAfterMutation ==
    inflight = {} =>
        /\ CacheAgreesWithStore
        /\ \A c \in ConcurrentChecks :
              Results(Here, c[1], c[2], c[3]) \subseteq Results(Fresh(store), c[1], c[2], c[3])

(***************************************************************************)
(* C12: membership changes.  api/groups.py adds and removes member rows    *)
(* itself (db.add / db.delete, commit), beside PermissionService.grant and *)
(* revoke.  SpecMembership runs the operations one at a time with the      *)
(* cache on and the clock held; last remembers the latest operation.       *)
(***************************************************************************)
\* The member rows of user_id on group_id, whatever their effect or expiry
\* (the SELECT of add_group_member and remove_group_member).
member_rows(S, group_id, user_id) ==
    {rc \in RowsOf(S) :
        /\ rc[1].grantee_type = "user" /\ rc[1].grantee_id = user_id
        /\ rc[1].resource_type = "group" /\ rc[1].resource_id = group_id
        /\ rc[1].permission = "member"}

\* add_group_member: 404 for an unknown group or user, 409 when a member
\* row exists, else the member row is inserted and committed.  The handler
\* makes no call to the cache.  scalar_one_or_none raises on two rows.
add_group_member(st, group_id, user_id) ==
    IF group_id \notin Groups \/ user_id \notin Users
    THEN [status |-> 404, store |-> st.store]
    ELSE IF Cardinality(member_rows(st.store, group_id, user_id)) > 1
    THEN [status |-> 500, store |-> st.store]
    ELSE IF member_rows(st.store, group_id, user_id) # {}
    THEN [status |-> 409, store |-> st.store]
    ELSE [status |-> 201,
          store |-> store_add(st.store,
                        Row("user", user_id, "group", group_id, "member", "allow",
                            FALSE, Null, Null))]

\* remove_group_member: 404 for an unknown group or a user with no member
\* row, else the row is deleted and committed.  No call to the cache.
remove_group_member(st, group_id, user_id) ==
    LET found == member_rows(st.store, group_id, user_id)
    IN  IF group_id \notin Groups \/ found = {}
        THEN [status |-> 404, store |-> st.store]
        ELSE IF Cardinality(found) > 1
        THEN [status |-> 500, store |-> st.store]
        ELSE [status |-> 204,
              store |-> store_delete(st.store, (CHOOSE rc \in found : TRUE)[1])]

AddGroupMember(group_id, user_id) ==
    /\ BagCardinality(store) < MaxRows
    /\ store' = add_group_member(Here, group_id, user_id).store
    /\ last' = Some([op |-> "add_group_member", user |-> user_id,
                     status |-> add_group_member(Here, group_id, user_id).status])
    /\ UNCHANGED <<cachePerm, cacheGroups, cacheOn, now, pre, inflight, audit, created, sched>>

RemoveGroupMember(group_id, user_id) ==
    /\ store' = remove_group_member(Here, group_id, user_id).store
    /\ last' = Some([op |-> "remove_group_member", user |-> user_id,
                     status |-> remove_group_member(Here, group_id, user_id).status])
    /\ UNCHANGED <<cachePerm, cacheGroups, cacheOn, now, pre, inflight, audit, created, sched>>

\* Rows granted and revoked through PermissionService: the memberships of
\* alice and bob, and read on the site for the group.
MembershipInputs ==
    {MemberRow(u, Null) : u \in {"alice", "bob"}}
    \cup {Row("group", "ops", "site", "s1", "read", "allow", TRUE, Null, Null)}

MembershipChecks ==
    {<<u, r, "read">> : u \in NonAdmins, r \in {<<"site", "s1">>, <<"plan", "p1">>}}

InitMembership ==
    /\ store = EmptyBag
    /\ cachePerm = EmptyCache
    /\ cacheGroups = EmptyCache
    /\ cacheOn = TRUE
    /\ now = 0
    /\ pre = Null
    /\ InitExtras

NextMembership ==
    \/ \E u \in NonAdmins : AddGroupMember("ops", u)
    \/ \E u \in NonAdmins : RemoveGroupMember("ops", u)
    \/ \E row \in MembershipInputs :
          /\ Grant(row)
          /\ last' = Some([op |-> "grant", user |-> row.grantee_id, status |-> 201])
          /\ UNCHANGED <<pre, inflight, audit, created, sched>>
    \/ \E row \in MembershipInputs :
          /\ Revoke(row)
          /\ last' = Some([op |-> "revoke", user |-> row.grantee_id, status |-> 204])
          /\ UNCHANGED <<pre, inflight, audit, created, sched>>
    \/ \E c \in MembershipChecks :
          /\ Check(c[1], c[2], c[3])
          /\ last' = Some([op |-> "check", user |-> c[1], status |-> 200])
          /\ UNCHANGED <<pre, inflight, audit, created, sched>>
    \/ TtlExpire /\ UNCHANGED <<pre, extras>>

SpecMembership == InitMembership /\ [][NextMembership]_vars

\* What get_user_groups and the checks of u return right now agrees with
\* the store.
MembershipServedFresh(u) ==
    /\ get_user_groups(Here, u).group_ids = select_user_groups(store, now, u)
    /\ \A c \in MembershipChecks :
          c[1] = u => Results(Here, c[1], c[2], c[3]) \subseteq Results(Fresh(store), c[1], c[2], c[3])

\* C12: right after an operation that added or removed a member row of u,
\* through PermissionService or through the groups API, get_user_groups(u)
\* returns the membership of the store and the checks of u use it.
C12_MembershipVisible ==
    \A u \in NonAdmins :
        (/\ last # Null
         /\ TheValue(last).user = u
         /\ TheValue(last).op \in {"add_group_member", "remove_group_member", "grant", "revoke"}
         /\ TheValue(last).status \in {201, 204})
        => MembershipServedFresh(u)

(***************************************************************************)
(* C13 - C15: the permissions API (api/permissions.py) and the audit log.  *)
(* grant_permission and revoke_permission commit twice: the store change   *)
(* inside PermissionService, then the audit row inside AuditService.  A    *)
(* request between its two commits is in flight, and may fail there.       *)
(***************************************************************************)
MaxAudit == 3        \* rows the audit log holds at most

\* Python truth value of the tuple check returns: a tuple is false only
\* when it is empty.
truthy(t) == Len(t) > 0

\* A row of audit_logs (id, timestamp and details left out); the target
\* user or group is the grantee.
AuditEvent(action, actor, row) ==
    [action |-> action, actor |-> actor,
     grantee_type |-> row.grantee_type, grantee_id |-> row.grantee_id,
     resource_type |-> row.resource_type, resource_id |-> row.resource_id,
     permission |-> row.permission]

\* AuditService.log_permission_granted / log_permission_revoked: add, commit.
audit_add(A, event) == A (+) SetToBag({event})

\* The users and groups the handlers look up.
grantee_exists(grantee_type, grantee_id) ==
    IF grantee_type = "user" THEN grantee_id \in Users ELSE grantee_id \in Groups

\* "Verify resource exists": only for the kinds user and group.
resource_verified(resource_type, resource_id) ==
    CASE resource_type = "user"  -> resource_id \in Users
      [] resource_type = "group" -> resource_id \in Groups
      [] OTHER -> TRUE

\* The row grant_permission hands to PermissionService.grant: the request
\* without its fields and its expires_at, which the call does not pass.
granted_row(q) ==
    Row(q.grantee_type, q.grantee_id, q.resource_type, q.resource_id,
        q.permission, q.effect, q.inherit, Null, Null)

\* The response of a handler that ended, kept in last.
Response(op, caller, manage, status, changed, request, stored) ==
    Some([op |-> op, caller |-> caller, manage |-> manage, status |-> status,
          changed |-> changed, request |-> request, stored |-> stored])

\* grant_permission up to the commit of PermissionService.grant.
ApiGrantBegin(caller, q) ==
    /\ BagCardinality(store) < MaxRows
    /\ BagCardinality(audit) + Cardinality(inflight) < MaxAudit
    /\ \E o \in check(Here, caller, q.resource_type, q.resource_id, "manage") :
          LET has_permission == o.result
              st == [Here EXCEPT !.cachePerm = o.cachePerm, !.cacheGroups = o.cacheGroups]
          IN  IF ~truthy(has_permission)
              THEN /\ last' = Response("grant_permission", caller, has_permission[1], 403,
                                       FALSE, q, Null)
                   /\ cachePerm' = o.cachePerm /\ cacheGroups' = o.cacheGroups
                   /\ UNCHANGED <<store, inflight>>
              ELSE IF ~grantee_exists(q.grantee_type, q.grantee_id)
                      \/ ~resource_verified(q.resource_type, q.resource_id)
              THEN /\ last' = Response("grant_permission", caller, has_permission[1], 404,
                                       FALSE, q, Null)
                   /\ cachePerm' = o.cachePerm /\ cacheGroups' = o.cacheGroups
                   /\ UNCHANGED <<store, inflight>>
              ELSE LET r == grant(st, granted_row(q))
                   IN  /\ store' = r.store
                       /\ cachePerm' = r.cachePerm /\ cacheGroups' = r.cacheGroups
                       /\ inflight' = inflight \cup
                              {[kind |-> "grant_permission", pc |-> "audit", caller |-> caller,
                                manage |-> has_permission[1], request |-> q,
                                row |-> granted_row(q)]}
                       /\ UNCHANGED last
    /\ UNCHANGED <<cacheOn, now, pre, audit, created, sched>>

\* revoke_permission of the id of a copy of row, up to the commit of
\* PermissionService.revoke; 404 when no row has the id.
ApiRevokeBegin(caller, row) ==
    /\ BagCardinality(audit) + Cardinality(inflight) < MaxAudit
    /\ IF ~BagIn(row, store)
       THEN /\ last' = Response("revoke_permission", caller, FALSE, 404, FALSE, row, Null)
            /\ UNCHANGED <<store, cachePerm, cacheGroups, inflight>>
       ELSE \E o \in check(Here, caller, row.resource_type, row.resource_id, "manage") :
          LET has_permission == o.result
              st == [Here EXCEPT !.cachePerm = o.cachePerm, !.cacheGroups = o.cacheGroups]
          IN  IF ~truthy(has_permission)
              THEN /\ last' = Response("revoke_permission", caller, has_permission[1], 403,
                                       FALSE, row, Null)
                   /\ cachePerm' = o.cachePerm /\ cacheGroups' = o.cacheGroups
                   /\ UNCHANGED <<store, inflight>>
              ELSE LET r == revoke(st, row)
                   IN  /\ store' = r.store
                       /\ cachePerm' = r.cachePerm /\ cacheGroups' = r.cacheGroups
                       /\ inflight' = inflight \cup
                              {[kind |-> "revoke_permission", pc |-> "audit", caller |-> caller,
                                manage |-> has_permission[1], request |-> row, row |-> row]}
                       /\ UNCHANGED last
    /\ UNCHANGED <<cacheOn, now, pre, audit, created, sched>>

\* The second commit of grant_permission / revoke_permission: the audit
\* row; then the response.
ApiAudit(req) ==
    /\ req \in inflight /\ req.pc = "audit"
    /\ req.kind \in {"grant_permission", "revoke_permission"}
    /\ audit' = audit_add(audit,
                    AuditEvent(IF req.kind = "grant_permission" THEN "permission_granted"
                                                                ELSE "permission_revoked",
                               Some(req.caller), req.row))
    /\ inflight' = inflight \ {req}
    /\ last' = Response(req.kind, req.caller, req.manage,
                        IF req.kind = "grant_permission" THEN 201 ELSE 204,
                        TRUE, req.request, Some(req.row))
    /\ UNCHANGED <<store, cachePerm, cacheGroups, cacheOn, now, pre, created, sched>>

\* The request fails between its two commits (the audit commit raises, the
\* connection is lost, the task is cancelled): the response is an error
\* and what was committed stays.
ApiFail(req) ==
    /\ req \in inflight /\ req.pc = "audit"
    /\ req.kind \in {"grant_permission", "revoke_permission"}
    /\ inflight' = inflight \ {req}
    /\ last' = Response(req.kind, req.caller, req.manage, 500, TRUE, req.request, Some(req.row))
    /\ UNCHANGED <<store, cachePerm, cacheGroups, cacheOn, now, pre, audit, created, sched>>

\* list_resource_permissions and get_permission_matrix: the manage test,
\* then the listing (the matrix answers 404 for a resource with no name).
ApiRead(op, caller, res) ==
    /\ \E o \in check(Here, caller, res[1], res[2], "manage") :
          LET has_permission == o.result
          IN  /\ cachePerm' = o.cachePerm /\ cacheGroups' = o.cacheGroups
              /\ last' = Response(op, caller, has_permission[1],
                             IF ~truthy(has_permission) THEN 403
                             ELSE IF op = "get_permission_matrix" /\ res \notin Resources
                             THEN 404 ELSE 200,
                             FALSE, res, Null)
    /\ UNCHANGED <<store, cacheOn, now, pre, inflight, audit, created, sched>>

\* The requests: manage on the site to alice, read on the site to alice
\* with a field list and an expiry, and a grant to an unknown user.
ApiRequests ==
    {Row("user", "alice", "site", "s1", "manage", "allow", TRUE, Null, Null),
     Row("user", "alice", "site", "s1", "read", "allow", TRUE, Some({"a"}), Some(1)),
     Row("user", "nobody", "site", "s1", "read", "allow", TRUE, Null, Null)}

ApiCallers == {"alice", "root"}

InitApi ==
    /\ store = EmptyBag
    /\ cachePerm = EmptyCache
    /\ cacheGroups = EmptyCache
    /\ cacheOn = FALSE
    /\ now = 0
    /\ pre = Null
    /\ InitExtras

NextApi ==
    \/ \E caller \in ApiCallers, q \in ApiRequests : ApiGrantBegin(caller, q)
    \/ \E caller \in ApiCallers, q \in ApiRequests : ApiRevokeBegin(caller, granted_row(q))
    \/ \E req \in inflight : ApiAudit(req)
    \/ \E req \in inflight : ApiFail(req)
    \/ \E caller \in ApiCallers :
          ApiRead("list_resource_permissions", caller, <<"site", "s1">>)
    \/ \E caller \in ApiCallers, res \in {<<"site", "s1">>, <<"site", "s9">>} :
          ApiRead("get_permission_matrix", caller, res)

SpecApi == InitApi /\ [][NextApi]_vars

\* C13: a call by a non-admin whose manage check returned allowed = False
\* ends in 403, and changes neither the store nor the audit log.
C13_ForbiddenWithoutManage ==
    last # Null =>
        LET l == TheValue(last)
        IN  (/\ l.op \in {"grant_permission", "revoke_permission",
                          "list_resource_permissions", "get_permission_matrix"}
             /\ ~is_admin[l.caller]
             /\ l.manage = FALSE
             /\ l.status # 404)
            => l.status = 403 /\ ~l.changed

\* C14: a grant issued through grant_permission (by a caller who is an
\* admin or holds manage) is stored with the field list and the expiry of
\* the request.
C14_StoredAsRequested ==
    last # Null =>
        LET l == TheValue(last)
        IN  (l.op = "grant_permission" /\ l.status = 201 /\ (is_admin[l.caller] \/ l.manage))
            => l.stored = Some(l.request)

\* The rows of S and the events of A with the key of row.
RowsWithKey(S, row) ==
    {rc \in RowsOf(S) : UniqueKey(rc[1]) = UniqueKey(row)}

EventsWithKey(A, action, row) ==
    {ec \in RowsOf(A) : ec[1].action = action /\
        <<ec[1].grantee_type, ec[1].grantee_id, ec[1].resource_type,
          ec[1].resource_id, ec[1].permission>> = UniqueKey(row)}

\* C15: in every committed state the rows the API inserted and has not
\* removed are those with a 'granted' event and no 'revoked' event: per
\* (grantee, resource, permission), rows = granted events - revoked events
\* (stated for the states whose requests in flight passed the manage test).
C15_AuditAtomic ==
    (\A req \in inflight : is_admin[req.caller] \/ req.manage) =>
    \A q \in ApiRequests :
        Cardinality(RowsWithKey(store, q)) + Cardinality(EventsWithKey(audit, "permission_revoked", q))
            = Cardinality(EventsWithKey(audit, "permission_granted", q))


(***************************************************************************)
(* C16: the create endpoints (api/sites.py, api/plans.py) and              *)
(* PermissionService.auto_grant_manage.                                    *)
(***************************************************************************)
\* Ids the database can give to a new row (uuid4: never one in use).
SiteIds == {"s1"}
PlanIds == {"p1", "p2"}

\* The row auto_grant_manage inserts.
auto_grant_manage(creator_id, resource_type, resource_id) ==
    Row("user", creator_id, resource_type, resource_id, "manage", "allow", TRUE,
        Null, Null)

\* A committed business row with its creator; revoked records that the
\* creator grant on it was revoked explicitly afterwards.
CreatedRow(resource_type, resource_id, created_by) ==
    [resource_type |-> resource_type, resource_id |-> resource_id,
     created_by |-> created_by, revoked |-> FALSE]

\* create_site up to the commit of the site: admins only.
CreateSiteBegin(caller, id) ==
    /\ BagCardinality(store) + Cardinality(inflight) < MaxRows
    /\ \A c \in created : c.resource_id # id
    /\ IF ~is_admin[caller]
       THEN /\ last' = Response("create_site", caller, FALSE, 403, FALSE, id, Null)
            /\ UNCHANGED <<created, inflight>>
       ELSE /\ created' = created \cup {CreatedRow("site", id, caller)}
            /\ inflight' = inflight \cup
                   {[kind |-> "create_site", pc |-> "grant", caller |-> caller,
                     resource_type |-> "site", resource_id |-> id]}
            /\ UNCHANGED last
    /\ UNCHANGED <<store, cachePerm, cacheGroups, cacheOn, now, pre, audit, sched>>

\* create_plan up to the commit of the plan: 404 without the site, then
\* the test of create on the site.
CreatePlanBegin(caller, site_id, id) ==
    /\ BagCardinality(store) + Cardinality(inflight) < MaxRows
    /\ \A c \in created : c.resource_id # id
    /\ IF ~\E c \in created : c.resource_type = "site" /\ c.resource_id = site_id
       THEN /\ last' = Response("create_plan", caller, FALSE, 404, FALSE, id, Null)
            /\ UNCHANGED <<created, inflight, cachePerm, cacheGroups>>
       ELSE \E o \in check(Here, caller, "site", site_id, "create") :
          LET has_permission == o.result
          IN  /\ cachePerm' = o.cachePerm /\ cacheGroups' = o.cacheGroups
              /\ IF ~truthy(has_permission)
                 THEN /\ last' = Response("create_plan", caller, has_permission[1], 403,
                                          FALSE, id, Null)
                      /\ UNCHANGED <<created, inflight>>
                 ELSE /\ created' = created \cup {CreatedRow("plan", id, caller)}
                      /\ inflight' = inflight \cup
                             {[kind |-> "create_plan", pc |-> "grant", caller |-> caller,
                               resource_type |-> "plan", resource_id |-> id]}
                      /\ UNCHANGED last
    /\ UNCHANGED <<store, cacheOn, now, pre, audit, sched>>

\* The second commit of a create endpoint: auto_grant_manage, then 201.
CreateGrant(req) ==
    /\ req \in inflight /\ req.pc = "grant"
    /\ LET row == auto_grant_manage(req.caller, req.resource_type, req.resource_id)
           r == grant(Here, row)
       IN  /\ store' = r.store
           /\ cachePerm' = r.cachePerm /\ cacheGroups' = r.cacheGroups
           /\ last' = Response(req.kind, req.caller, TRUE, 201, TRUE, req.resource_id,
                               Some(row))
    /\ inflight' = inflight \ {req}
    /\ UNCHANGED <<cacheOn, now, pre, audit, created, sched>>

\* The request fails after the commit of the resource (the grant raises,
\* the connection is lost, the process stops): the resource stays.
CreateFail(req) ==
    /\ req \in inflight /\ req.pc = "grant"
    /\ inflight' = inflight \ {req}
    /\ last' = Response(req.kind, req.caller, TRUE, 500, TRUE, req.resource_id, Null)
    /\ UNCHANGED <<store, cachePerm, cacheGroups, cacheOn, now, pre, audit, created, sched>>

\* PermissionService.revoke of a creator grant.
RevokeCreatorGrant(c) ==
    /\ c \in created
    /\ Revoke(auto_grant_manage(c.created_by, c.resource_type, c.resource_id))
    /\ created' = (created \ {c}) \cup {[c EXCEPT !.revoked = TRUE]}
    /\ UNCHANGED <<pre, inflight, audit, last, sched>>

InitCreate ==
    /\ store = EmptyBag
    /\ cachePerm = EmptyCache
    /\ cacheGroups = EmptyCache
    /\ cacheOn = FALSE
    /\ now = 0
    /\ pre = Null
    /\ InitExtras

NextCreate ==
    \/ \E caller \in ApiCallers, id \in SiteIds : CreateSiteBegin(caller, id)
    \/ \E caller \in ApiCallers, id \in PlanIds : CreatePlanBegin(caller, "s1", id)
    \/ \E req \in inflight : CreateGrant(req)
    \/ \E req \in inflight : CreateFail(req)
    \/ \E c \in created : RevokeCreatorGrant(c)

SpecCreate == InitCreate /\ [][NextCreate]_vars

\* C16: once no create request is in flight, every created resource has
\* the manage/allow/inherit grant of its creator, unless that grant was
\* revoked explicitly.
C16_CreatorGrantAtomic ==
    inflight = {} =>
        \A c \in created :
            \/ c.revoked
            \/ BagIn(auto_grant_manage(c.created_by, c.resource_type, c.resource_id),
                     store)


(***************************************************************************)
(* C17, C18: the expiration worker (tasks/permission_expiration.py) under  *)
(* the scheduler (tasks/scheduler.py).                                     *)
(***************************************************************************)
\* job_defaults of create_scheduler
coalesce == TRUE
max_instances == 1

\* The executor starts a run of a job only below max_instances; above, the
\* run is skipped.
always_submit(running) == TRUE

can_submit(running) == running < max_instances

\* The run times the scheduler submits for the fire times it finds due:
\* with coalesce, one for all of them.
run_times(missed) == IF coalesce THEN 1 ELSE missed

\* How many of these runs start, with running instances already there.
started_runs(running, missed) ==
    Cardinality({k \in 1..run_times(missed) : can_submit(running + k - 1)})

\* The select of expire_permissions: the rows with expires_at < now.
select_expired(S, t) ==
    LET R == {row \in BagToSet(S) : row.expires_at # Null /\ TheValue(row.expires_at) < t}
    IN  [row \in R |-> CopiesIn(row, S)]

\* The audit row expire_permissions writes for perm (no actor).
expired_event(perm) == AuditEvent("permission_expired", Null, perm)

\* One audit row per copy of each row of the bag B.
expired_events(B) ==
    LET E == {expired_event(row) : row \in BagToSet(B)}
    IN  [e \in E |-> Cardinality({c \in RowsOf(B) : expired_event(c[1]) = e})]

\* The bag of the copies P (a set of <<row, k>>) outside the rows of skip.
bag_without(P, skip) ==
    LET R == {c[1] : c \in P} \ skip
    IN  [row \in R |-> Cardinality({c \in P : c[1] = row})]

\* A fire time of job j passes before the scheduler has processed it.
TriggerDue(j) ==
    /\ Cardinality({jk \in JobIds \X (1..MaxInflight) : jk[2] <= sched[jk[1]].missed})
           < MaxInflight
    /\ sched' = [sched EXCEPT ![j].missed = @ + 1]
    /\ last' = Null
    /\ UNCHANGED <<store, cachePerm, cacheGroups, cacheOn, now, pre, inflight, audit, created>>

\* A due fire time of job j is older than misfire_grace_time: dropped.
Misfire(j) ==
    /\ sched[j].missed > 0
    /\ sched' = [sched EXCEPT ![j].missed = @ - 1]
    /\ last' = Null
    /\ UNCHANGED <<store, cachePerm, cacheGroups, cacheOn, now, pre, inflight, audit, created>>

\* The scheduler wakes and processes the due fire times of job j: it
\* submits run_times runs, and those the executor accepts start.
Wake(j) ==
    /\ sched[j].missed > 0
    /\ LET running == sched[j].running
           started == started_runs(running, sched[j].missed)
           Free == {k \in 1..(MaxInflight + 1) :
                       ~\E i \in inflight : i.job = j /\ i.n = k}
           pick == {k \in Free : Cardinality({f \in Free : f < k}) < started}
       IN  /\ Cardinality(inflight) + started <= MaxInflight
           /\ inflight' = inflight \cup
                  {[kind |-> "job", job |-> j, n |-> k, pc |-> "start", now |-> Null,
                    expired_perms |-> {}, before |-> {}] : k \in pick}
           /\ sched' = [sched EXCEPT ![j] = [running |-> running + started, missed |-> 0]]
           /\ last' = Some([op |-> "wake", job |-> j, missed |-> sched[j].missed,
                            running |-> running, started |-> started])
    /\ UNCHANGED <<store, cachePerm, cacheGroups, cacheOn, now, pre, audit, created>>

\* expire_permissions, lines 39-52: now is read and the expired rows are
\* loaded into the session.
ExpireSelect(inst) ==
    /\ inst \in inflight /\ inst.job = "expire_permissions" /\ inst.pc = "start"
    /\ inflight' = (inflight \ {inst}) \cup
           {[inst EXCEPT !.pc = "loaded", !.now = Some(now),
                         !.expired_perms = RowsOf(select_expired(store, now)),
                         !.before = RowsOf(store)]}
    /\ last' = Null
    /\ UNCHANGED <<store, cachePerm, cacheGroups, cacheOn, now, pre, audit, created, sched>>

\* expire_permissions, lines 54-99: for each loaded row an audit row and a
\* delete (a row whose processing raises is skipped), then one commit.
ExpireCommit(inst) ==
    /\ inst \in inflight /\ inst.job = "expire_permissions" /\ inst.pc = "loaded"
    /\ \E skip \in SUBSET {c[1] : c \in inst.expired_perms} :
          LET done == bag_without(inst.expired_perms, skip)
          IN  /\ BagCardinality(audit) + BagCardinality(done) <= MaxAudit
              /\ store' = store (-) done
              /\ audit' = audit (+) expired_events(done)
              /\ last' = Some([op |-> "expire_permissions", status |-> "ok",
                               now |-> TheValue(inst.now), errors |-> skip # {},
                               before |-> inst.before, store_at_commit |-> RowsOf(store),
                               audit_before |-> RowsOf(audit),
                               expired |-> inst.expired_perms, raised |-> skip])
    /\ inflight' = inflight \ {inst}
    /\ sched' = [sched EXCEPT ![inst.job].running = @ - 1]
    /\ UNCHANGED <<cachePerm, cacheGroups, cacheOn, now, pre, created>>

\* expire_permissions, lines 101-104: rollback and raise.  The run gets
\* here when the commit raises, and when the flush of a row (line 85)
\* raised: the session has then rolled its transaction back, the flushes
\* of the rows that follow and the commit raise as well.  `raised` holds the
\* row whose flush raised first (none: the failure is the commit's).
ExpireAbort(inst) ==
    /\ inst \in inflight /\ inst.job = "expire_permissions" /\ inst.pc = "loaded"
    /\ inflight' = inflight \ {inst}
    /\ sched' = [sched EXCEPT ![inst.job].running = @ - 1]
    /\ \E first \in SUBSET {c[1] : c \in inst.expired_perms} :
          /\ Cardinality(first) <= 1
          /\ last' = Some([op |-> "expire_permissions", status |-> "error",
                           now |-> TheValue(inst.now), errors |-> TRUE,
                           before |-> inst.before, store_at_commit |-> RowsOf(store),
                           audit_before |-> RowsOf(audit),
                           expired |-> inst.expired_perms, raised |-> first])
    /\ UNCHANGED <<store, cachePerm, cacheGroups, cacheOn, now, pre, audit, created>>

\* notify_expiring_permissions: reads the rows expiring soon and logs.
NotifyRun(inst) ==
    /\ inst \in inflight /\ inst.job # "expire_permissions" /\ inst.pc = "start"
    /\ inflight' = inflight \ {inst}
    /\ sched' = [sched EXCEPT ![inst.job].running = @ - 1]
    /\ last' = Null
    /\ UNCHANGED <<store, cachePerm, cacheGroups, cacheOn, now, pre, audit, created>>

\* PermissionService.grant while the worker exists; pre keeps every row
\* ever inserted.
WorkerGrant(row) ==
    /\ BagCardinality(store) + BagCardinality(audit) < MaxAudit
    /\ Grant(row)
    /\ pre' = pre (+) SetToBag({row})
    /\ last' = Null
    /\ UNCHANGED <<inflight, audit, created, sched>>

WorkerTick ==
    /\ Tick
    /\ last' = Null
    /\ UNCHANGED <<pre, inflight, audit, created, sched>>

\* Grants of read on the site to alice, expiring at 0 and at 1.
WorkerInputs ==
    {Row("user", "alice", "site", "s1", "read", "allow", TRUE, Null, Some(0)),
     Row("user", "alice", "site", "s1", "read", "allow", TRUE, Null, Some(1))}

InitWorker ==
    /\ store = EmptyBag
    /\ cachePerm = EmptyCache
    /\ cacheGroups = EmptyCache
    /\ cacheOn = FALSE
    /\ now = 0
    /\ pre = EmptyBag
    /\ InitExtras

NextWorker ==
    \/ \E row \in WorkerInputs : WorkerGrant(row)
    \/ WorkerTick
    \/ \E j \in JobIds : TriggerDue(j)
    \/ \E j \in JobIds : Misfire(j)
    \/ \E j \in JobIds : Wake(j)
    \/ \E inst \in inflight : ExpireSelect(inst)
    \/ \E inst \in inflight : ExpireCommit(inst)
    \/ \E inst \in inflight : ExpireAbort(inst)
    \/ \E inst \in inflight : NotifyRun(inst)

SpecWorker == InitWorker /\ [][NextWorker]_vars


\* C17: after a run of expire_permissions that started at l.now, met no
\* error and no concurrent change of the table, no row with
\* expires_at <= l.now is left, the rows with no expiry or a later one are
\* the same as before, and the 'expired' events added are one per deleted
\* row, written by the same commit.
C17_ExpireRun ==
    \A l \in last :
        (l.op = "expire_permissions" /\ l.status = "ok" /\ ~l.errors
            /\ l.before = l.store_at_commit) =>
        /\ \A c \in RowsOf(store) :
              c[1].expires_at = Null \/ TheValue(c[1].expires_at) > l.now
        /\ \A c \in l.before \cup RowsOf(store) :
              (c[1].expires_at = Null \/ TheValue(c[1].expires_at) > l.now)
                  => (c \in l.before /\ c \in RowsOf(store))
        /\ \A row \in WorkerInputs :
              Cardinality(EventsWithKey(audit, "permission_expired", row))
                  - Cardinality({ec \in l.audit_before :
                        ec[1] = expired_event(row)})
              = Cardinality({c \in l.before : UniqueKey(c[1]) = UniqueKey(row)})
                  - Cardinality(RowsWithKey(store, row))

\* C18: at most one instance of each job id runs; a wake that finds the
\* job running starts nothing and a wake that finds several fire times due
\* starts at most one run; every 'expired' event is the event of one
\* deleted row (rows left + 'expired' events = rows ever inserted).
C18_SingleInstance ==
    /\ \A j \in JobIds :
          /\ sched[j].running <= 1
          /\ Cardinality({i \in inflight : i.job = j}) <= 1
    /\ \A l \in last :
          l.op = "wake" => /\ l.started <= 1
                           /\ l.running > 0 => l.started = 0
    /\ \A row \in WorkerInputs :
          Cardinality(RowsWithKey(store, row))
              + Cardinality(EventsWithKey(audit, "permission_expired", row))
          = Cardinality(RowsWithKey(pre, row))

\* Two fire times of expire_permissions came due while an instance that has
\* loaded an expired row was running, and the wake started nothing; one
\* row was expired before.
C18_Witness ==
    /\ \E l \in last :
          /\ l.op = "wake" /\ l.job = "expire_permissions"
          /\ l.missed >= 2 /\ l.running = 1 /\ l.started = 0
    /\ \E i \in inflight :
          i.job = "expire_permissions" /\ i.pc = "loaded" /\ i.expired_perms # {}
    /\ BagCardinality(audit) > 0


(***************************************************************************)
(* C19, C20: membership beside the lattice, and the defaults               *)
(***************************************************************************)
\* Grants on the group, on a catalog row and on the site and the plan, for
\* the engine with the cache off.
KindInputs ==
    {Row("user", u, "group", "ops", p, "allow", TRUE, Null, Null) :
        u \in {"alice", "bob"}, p \in {"manage", "read"}}
    \cup {Row("user", "alice", "group", "ops", p, "deny", TRUE, Null, Null) :
        p \in {"read", "member"}}
    \cup {Row("group", "ops", "group", "ops", "write", "allow", TRUE, Null, Null),
          Row("group", "ops", "site", "s1", "read", "allow", TRUE, Null, Null),
          MemberRow("bob", Null),
          MemberRow("alice", Some(1)),
          Row("user", "alice", "hardware", "hw1", "write", "allow", TRUE, Null, Null),
          Row("user", "alice", "hardware", "hw1", "read", "deny", TRUE, Null, Null),
          Row("user", "alice", "site", "s1", "read", "allow", FALSE, Null, Null),
          Row("user", "alice", "plan", "p1", "write", "allow", TRUE, Some({"a"}), Null)}

SpecKinds == InitEngine /\ [][NextEngine(KindInputs)]_vars

\* C19: on the group, a check of a lattice permission is allowed only
\* where a live allow grant of a lattice permission in its closure applies
\* (a member grant is none); get_user_groups returns the groups the user
\* holds a live allow member grant on, whatever else the user holds on
\* them; a check of member is allowed only where a member grant applies.
C19_MemberBesideLattice ==
    \A u \in NonAdmins, g \in Groups :
        LET r == <<"group", g>> IN
        /\ \A p \in LatticePermissions :
              (\E res \in Results(Here, u, r, p) : res[1])
                  => \E rc \in ApplicableTo(store, u, r, p, "allow") :
                        rc[1].permission \in LatticePermissions
        /\ get_user_groups(Here, u).group_ids = MemberOf(store, u)
        /\ (\E res \in Results(Here, u, r, "member") : res[1])
              => \E rc \in ApplicableTo(store, u, r, "member", "allow") :
                    rc[1].permission = "member"

\* alice is a member of ops and holds nothing else: every lattice check on
\* the group is refused; bob holds manage on the group: he is in no group
\* and his check of member is refused, while his read is allowed.
C19_Witness ==
    /\ BagIn(MemberRow("alice", Null), store)
    /\ BagIn(Row("user", "bob", "group", "ops", "manage", "allow", TRUE, Null, Null), store)
    /\ \A p \in LatticePermissions :
          Results(Here, "alice", <<"group", "ops">>, p) = {<<FALSE, Null>>}
    /\ get_user_groups(Here, "alice").group_ids = {"ops"}
    /\ get_user_groups(Here, "bob").group_ids = {}
    /\ Results(Here, "bob", <<"group", "ops">>, "member") = {<<FALSE, Null>>}
    /\ Results(Here, "bob", <<"group", "ops">>, "read") = {<<TRUE, Null>>}

\* The resources of C20: those of the model and one row of every catalog kind.
KindResources == Resources \cup {<<k, "hw1">> : k \in CatalogKinds}

\* No live grant applies to u on r for a request of p.
NoGrantMatches(u, r, p) ==
    ApplicableTo(store, u, r, p, "allow") \cup ApplicableTo(store, u, r, p, "deny") = {}

\* C20: for a non-admin user and a request no grant matches, check returns
\* (True, None) for read on a resource of a catalog kind, (False, None) for
\* write, delete, create and manage on it, and (False, None) for every
\* permission on a resource of any other kind.
C20_Defaults ==
    \A u \in NonAdmins, r \in KindResources :
        \A p \in (IF r[1] \in CatalogKinds THEN LatticePermissions ELSE Permissions) :
            NoGrantMatches(u, r, p) =>
                Results(Here, u, r, p) =
                    {IF r[1] \in CatalogKinds /\ p = "read"
                     THEN <<TRUE, Null>> ELSE <<FALSE, Null>>}

\* The store holds grants of alice on the site (not inheritable) and on
\* the catalog row; none matches bob, nor alice on the plan: bob reads the
\* catalog row and may not write it, and alice is refused on the plan.
C20_Witness ==
    /\ BagIn(Row("user", "alice", "site", "s1", "read", "allow", FALSE, Null, Null), store)
    /\ BagIn(Row("user", "alice", "hardware", "hw1", "write", "allow", TRUE, Null, Null), store)
    /\ NoGrantMatches("bob", <<"hardware", "hw1">>, "read")
    /\ Results(Here, "bob", <<"hardware", "hw1">>, "read") = {<<TRUE, Null>>}
    /\ Results(Here, "bob", <<"hardware", "hw1">>, "write") = {<<FALSE, Null>>}
    /\ NoGrantMatches("alice", <<"plan", "p1">>, "read")
    /\ Results(Here, "alice", <<"plan", "p1">>, "read") = {<<FALSE, Null>>}


(***************************************************************************)
(* C21: get_ancestors of the standalone kinds                              *)
(***************************************************************************)
\* The kinds that inherit from no parent: user, group, dashboard and the
\* catalog kinds.
StandaloneKinds == {"user", "group", "dashboard"} \cup CatalogKinds

\* C21: for every standalone kind get_ancestors(kind, id) is
\* [(kind, id, 0)], and a live allow grant with no field list that a
\* non-admin user holds directly on such a resource, with no deny beside
\* it, makes the check of its permission allowed.
C21_StandaloneAncestors ==
    \A k \in StandaloneKinds, id \in {"ops", "hw1", "alice"} :
        /\ get_ancestors(k, id) = << <<k, id, 0>> >>
        /\ \A u \in NonAdmins, p \in LatticePermissions :
              (/\ BagIn(Row("user", u, k, id, p, "allow", TRUE, Null, Null), store)
               /\ ApplicableTo(store, u, <<k, id>>, p, "deny") = {})
                  => Results(Here, u, <<k, id>>, p) = {<<TRUE, Null>>}


(***************************************************************************)
(* C22: the self-update rule (core/business_rules.py) in update_user       *)
(* (api/users.py).  In SpecUsers the variable created is the users table.  *)
(***************************************************************************)
\* SELF_UPDATE_RULES
SELF_UPDATE_RULES ==
    [allowed |-> {"email", "password", "first_name", "last_name"},
     forbidden |-> {"username", "is_admin", "disabled"}]

\* The rule switched off: nothing is rejected.
validate_nothing(updates, admin) == 200

\* validate_self_update(updates, is_admin): 403 when it raises, else 200.
\* updates is the set of the keys of the update.
validate_self_update(updates, admin) ==
    IF admin THEN 200
    ELSE IF \E field \in updates : field \in SELF_UPDATE_RULES.forbidden THEN 403
    ELSE 200

\* The columns of users an update of the model may name.
UserFields == {"email", "username", "is_admin", "disabled"}

\* The accounts of the table, with the rows they start with.
Accounts == {"alice", "root"}

UserRow(id) ==
    [username |-> id, email |-> "old", is_admin |-> is_admin[id], disabled |-> FALSE]

\* The value an update gives to a column of the row: another name (unique
\* per account), another address, the flag turned over.
NewValue(row, id, field) ==
    CASE field = "username" -> IF row.username = id THEN id \o "2" ELSE id
      [] field = "email"    -> IF row.email = "old" THEN "new" ELSE "old"
      [] field = "is_admin" -> ~row.is_admin
      [] field = "disabled" -> ~row.disabled

\* setattr(target_user, field, value) for every field of the update.
apply_updates(row, id, updates) ==
    [f \in DOMAIN row |-> IF f \in updates THEN NewValue(row, id, f) ELSE row[f]]

\* check for a caller whose is_admin flag is read from the users table.
check_as(st, admin, user, resource_type, resource_id, permission) ==
    IF admin
    THEN {[result |-> <<TRUE, Null>>, cachePerm |-> st.cachePerm,
           cacheGroups |-> st.cacheGroups, permKeys |-> {}, groupKeys |-> {}]}
    ELSE check_non_admin(st, user, resource_type, resource_id, permission)

\* update_user(user_id, updates) called by caller: the status and the
\* table after the call.
update_user(st, table, caller, user_id, updates) ==
    IF user_id \notin DOMAIN table THEN {[status |-> 404, table |-> table]}
    ELSE IF updates = {} THEN {[status |-> 200, table |-> table]}
    ELSE LET done == [table EXCEPT ![user_id] = apply_updates(table[user_id], user_id, updates)]
         IN  IF caller = user_id
             THEN IF validate_self_update(updates, table[caller].is_admin) = 403
                  THEN {[status |-> 403, table |-> table]}
                  ELSE {[status |-> 200, table |-> done]}
             ELSE {LET allowed == o.result[1]
                       fields == o.result[2]
                   IN  IF ~allowed /\ ~table[caller].is_admin
                       THEN [status |-> 403, table |-> table]
                       ELSE IF fields # Null /\ \E field \in updates : field \notin TheValue(fields)
                       THEN [status |-> 403, table |-> table]
                       ELSE [status |-> 200, table |-> done]
                   : o \in check_as(st, table[caller].is_admin, caller, "user", user_id, "write")}

UpdateUser(caller, user_id, updates) ==
    /\ \E o \in update_user(Here, created, caller, user_id, updates) :
          /\ created' = o.table
          /\ last' = Some([op |-> "update_user", caller |-> caller, user_id |-> user_id,
                           updates |-> updates, admin |-> created[caller].is_admin,
                           status |-> o.status, before |-> created])
    /\ UNCHANGED <<store, cachePerm, cacheGroups, cacheOn, now, pre, inflight, audit, sched>>

\* Grants of write on the user rows: to alice on her own row, and on the
\* row of root with a field list.
UserInputs ==
    {Row("user", "alice", "user", "alice", "write", "allow", TRUE, Null, Null),
     Row("user", "alice", "user", "root", "write", "allow", TRUE, Some({"email"}), Null)}

UserGrant(row) ==
    /\ Grant(row)
    /\ last' = Null
    /\ UNCHANGED <<pre, inflight, audit, created, sched>>

InitUsers ==
    /\ store = EmptyBag
    /\ cachePerm = EmptyCache
    /\ cacheGroups = EmptyCache
    /\ cacheOn = FALSE
    /\ now = 0
    /\ pre = Null
    /\ inflight = {}
    /\ audit = EmptyBag
    /\ last = Null
    /\ created = [id \in Accounts |-> UserRow(id)]
    /\ sched = [j \in JobIds |-> [running |-> 0, missed |-> 0]]

\* The updates sent: none, one column, an allowed and a forbidden column.
UpdatePayloads ==
    {{}, {"email"}, {"username"}, {"is_admin"}, {"disabled"}, {"email", "username"}}

NextUsers ==
    \/ \E row \in UserInputs : UserGrant(row)
    \/ \E caller \in Accounts, user_id \in Accounts \cup {"nobody"},
          updates \in UpdatePayloads : UpdateUser(caller, user_id, updates)

SpecUsers == InitUsers /\ [][NextUsers]_vars

\* C22: validate_self_update answers 403 exactly for a caller who is not an
\* admin and an update that names username, is_admin or disabled; a
\* self-update of update_user is answered 403 in exactly that case and then
\* the users table is what it was, whatever grants the store holds; the
\* self-update of an admin is never answered 403.
C22_SelfUpdate ==
    /\ \A updates \in SUBSET (UserFields \cup {"password"}), admin \in BOOLEAN :
          (validate_self_update(updates, admin) = 403)
              <=> (~admin /\ updates \cap {"username", "is_admin", "disabled"} # {})
    /\ \A l \in last :
          (l.op = "update_user" /\ l.caller = l.user_id) =>
              /\ (l.status = 403)
                    <=> (~l.admin /\ l.updates \cap {"username", "is_admin", "disabled"} # {})
              /\ l.status = 403 => created = l.before
              /\ l.admin => l.status # 403

\* alice, not an admin and holding write on her own user row, asked to
\* change her address and her username: 403, and her row is as before.
C22_Witness ==
    /\ BagIn(Row("user", "alice", "user", "alice", "write", "allow", TRUE, Null, Null), store)
    /\ \E l \in last :
          /\ l.op = "update_user" /\ l.caller = "alice" /\ l.user_id = "alice"
          /\ l.updates = {"email", "username"} /\ ~l.admin
          /\ l.status = 403 /\ created = l.before
          /\ l.before["root"].username = "root2"


(***************************************************************************)
(* C23: the cache calls of check and get_user_groups when a Redis call     *)
(* fails (CacheService.get / set / delete catch the error).                *)
(***************************************************************************)
\* The cache calls of one check that can fail.
Faults == {"get_permission", "get_user_groups", "set_user_groups", "set_permission"}

\* A get that reads the key although the call failed.
cache_get_ignoring_fault(c, on, key, fails) == cache_get(c, on, key)

\* CacheService.get: None when unavailable, and None from the except
\* branch when the Redis call fails.
cache_get_faulty(c, on, key, fails) ==
    IF ~on THEN Null
    ELSE IF fails THEN Null
    ELSE IF key \in DOMAIN c THEN Some(c[key]) ELSE Null

\* CacheService.set: False and no effect when unavailable or when the
\* Redis call fails.
cache_set_faulty(c, on, key, value, fails) ==
    IF ~on \/ fails THEN c
    ELSE [k \in DOMAIN c \cup {key} |-> IF k = key THEN value ELSE c[k]]

\* get_user_groups with the cache calls in F failing.
get_user_groups_faulty(st, user_id, F) ==
    LET cached_groups == cache_get_faulty(st.cacheGroups, st.cacheOn,
                             make_user_groups_key(user_id), "get_user_groups" \in F)
    IN  IF cached_groups # Null
        THEN [group_ids |-> TheValue(cached_groups), cacheGroups |-> st.cacheGroups]
        ELSE LET group_ids == select_user_groups(st.store, st.now, user_id)
             IN  [group_ids |-> group_ids,
                  cacheGroups |-> cache_set_faulty(st.cacheGroups, st.cacheOn,
                                      make_user_groups_key(user_id), group_ids,
                                      "set_user_groups" \in F)]

\* check with the cache calls in F failing: the possible outcomes.
check_faulty(st, user, resource_type, resource_id, permission, F) ==
    IF is_admin[user]
    THEN {[result |-> <<TRUE, Null>>, cachePerm |-> st.cachePerm,
           cacheGroups |-> st.cacheGroups]}
    ELSE
    LET key == make_permission_key(user, resource_type, resource_id, permission)
        hit == cache_get_faulty(st.cachePerm, st.cacheOn, key, "get_permission" \in F)
    IN  IF hit # Null
        THEN {[result |-> <<TheValue(hit).allowed, TheValue(hit).fields>>,
               cachePerm |-> st.cachePerm, cacheGroups |-> st.cacheGroups]}
        ELSE
        LET g == get_user_groups_faulty(st, user, F)
            ancestors == get_ancestors(resource_type, resource_id)
            rows == select_permissions(st.store, st.now, user, g.group_ids,
                                       ancestors, expand_permission(permission))
        IN  {LET result == decide(permissions, ancestors, resource_type, permission)
             IN  [result |-> result,
                  cachePerm |-> cache_set_faulty(st.cachePerm, st.cacheOn, key,
                                    [allowed |-> result[1], fields |-> result[2]],
                                    "set_permission" \in F),
                  cacheGroups |-> g.cacheGroups]
             : permissions \in order_by_effect_desc(rows)}

FaultyCheck(user, res, permission, F) ==
    /\ \E o \in check_faulty(Here, user, res[1], res[2], permission, F) :
          /\ cachePerm' = o.cachePerm
          /\ cacheGroups' = o.cacheGroups
    /\ UNCHANGED <<store, cacheOn, now, pre, extras>>

\* grant and revoke; with delete_fails the Redis calls of the invalidation
\* fail (delete and delete_pattern return 0) and the keys stay.
FaultyGrant(row, delete_fails) ==
    /\ BagCardinality(store) < MaxRows
    /\ LET r == grant(Here, row)
       IN  /\ store' = r.store
           /\ cachePerm' = IF delete_fails THEN cachePerm ELSE r.cachePerm
           /\ cacheGroups' = IF delete_fails THEN cacheGroups ELSE r.cacheGroups
    /\ UNCHANGED <<cacheOn, now, pre, extras>>

FaultyRevoke(row, delete_fails) ==
    /\ BagIn(row, store)
    /\ LET r == revoke(Here, row)
       IN  /\ store' = r.store
           /\ cachePerm' = IF delete_fails THEN cachePerm ELSE r.cachePerm
           /\ cacheGroups' = IF delete_fails THEN cacheGroups ELSE r.cacheGroups
    /\ UNCHANGED <<cacheOn, now, pre, extras>>

\* Read on the site for alice and for the group, and the membership of alice.
FaultInputs ==
    {Row("user", "alice", "site", "s1", "read", "allow", TRUE, Null, Null),
     Row("group", "ops", "site", "s1", "read", "deny", TRUE, Null, Null),
     MemberRow("alice", Null)}

FaultChecks == {<<u, r, "read">> : u \in {"alice", "root"},
                                    r \in {<<"site", "s1">>, <<"plan", "p1">>}}

\* The cache is enabled and connected, or it is not.
InitFaults ==
    /\ store = EmptyBag
    /\ cachePerm = EmptyCache
    /\ cacheGroups = EmptyCache
    /\ cacheOn \in BOOLEAN
    /\ now = 0
    /\ pre = Null
    /\ InitExtras

NextFaults ==
    \/ \E row \in FaultInputs, delete_fails \in BOOLEAN : FaultyGrant(row, delete_fails)
    \/ \E row \in FaultInputs, delete_fails \in BOOLEAN : FaultyRevoke(row, delete_fails)
    \/ \E c \in FaultChecks, F \in SUBSET Faults : FaultyCheck(c[1], c[2], c[3], F)

SpecFaults == InitFaults /\ [][NextFaults]_vars

SiteTable == {"s1", "s2"}

SiteRow(id, created_by) ==
    [resource_type |-> "site", resource_id |-> id, site_id |-> Null,
     created_by |-> created_by]

PlanRow(id, site_id, created_by) ==
    [resource_type |-> "plan", resource_id |-> id, site_id |-> Some(site_id),
     created_by |-> created_by]

sites_of(table) == {c.resource_id : c \in {x \in table : x.resource_type = "site"}}

\* list_sites: one check per site of the table, `if has_access:` on the
\* tuple that check returns.  `allowed` keeps the sites whose check allowed.
RECURSIVE list_sites(_, _, _)
list_sites(st, caller, todo) ==
    IF todo = {}
    THEN {[accessible |-> {}, allowed |-> {}, cachePerm |-> st.cachePerm,
           cacheGroups |-> st.cacheGroups]}
    ELSE LET site == CHOOSE x \in todo : TRUE
         IN  UNION {LET has_access == o.result
                    IN  {[accessible |-> (IF truthy(has_access) THEN {site} ELSE {})
                                             \cup rest.accessible,
                          allowed |-> (IF has_access[1] THEN {site} ELSE {})
                                          \cup rest.allowed,
                          cachePerm |-> rest.cachePerm, cacheGroups |-> rest.cacheGroups]
                         : rest \in list_sites([st EXCEPT !.cachePerm = o.cachePerm,
                                                           !.cacheGroups = o.cacheGroups],
                                               caller, todo \ {site})}
                    : o \in check(st, caller, "site", site, "read")}

SiteResponse(op, caller, id, allowed, status, sites, before) ==
    [op |-> op, caller |-> caller, id |-> id, allowed |-> allowed, status |-> status,
     sites |-> sites, before |-> before]

ListSites(caller) ==
    /\ \E r \in list_sites(Here, caller, sites_of(created)) :
          /\ cachePerm' = r.cachePerm /\ cacheGroups' = r.cacheGroups
          /\ last' = Some(SiteResponse("list_sites", caller, "", r.allowed, 200,
                                       r.accessible, created))
    /\ UNCHANGED <<store, cacheOn, now, pre, inflight, audit, created, sched>>

GetSite(caller, site_id) ==
    /\ \E o \in check(Here, caller, "site", site_id, "read") :
          LET has_permission == o.result
          IN  /\ cachePerm' = o.cachePerm /\ cacheGroups' = o.cacheGroups
              /\ last' = Some(SiteResponse("get_site", caller, site_id, has_permission[1],
                                  IF ~truthy(has_permission) THEN 403
                                  ELSE IF site_id \notin sites_of(created) THEN 404
                                  ELSE 200,
                                  {}, created))
    /\ UNCHANGED <<store, cacheOn, now, pre, inflight, audit, created, sched>>

\* delete_site: the site row goes, and its plans by the cascade.
DeleteSite(caller, site_id) ==
    /\ \E o \in check(Here, caller, "site", site_id, "delete") :
          LET has_permission == o.result
              status == IF ~truthy(has_permission) THEN 403
                        ELSE IF site_id \notin sites_of(created) THEN 404
                        ELSE 204
          IN  /\ cachePerm' = o.cachePerm /\ cacheGroups' = o.cacheGroups
              /\ created' = IF status = 204
                            THEN {c \in created : /\ c.resource_id # site_id
                                                  /\ c.site_id # Some(site_id)}
                            ELSE created
              /\ last' = Some(SiteResponse("delete_site", caller, site_id,
                                           has_permission[1], status, {}, created))
    /\ UNCHANGED <<store, cacheOn, now, pre, inflight, audit, sched>>

\* create_plan: 404 without the site, the check of create on the site,
\* then the plan row and the creator's manage grant.
CreatePlan(caller, site_id, id) ==
    /\ BagCardinality(store) < MaxRows
    /\ \A c \in created : c.resource_id # id
    /\ IF site_id \notin sites_of(created)
       THEN /\ last' = Some(SiteResponse("create_plan", caller, site_id, FALSE, 404,
                                         {}, created))
            /\ UNCHANGED <<store, created, cachePerm, cacheGroups>>
       ELSE \E o \in check(Here, caller, "site", site_id, "create") :
          LET has_permission == o.result
          IN  IF ~truthy(has_permission)
              THEN /\ last' = Some(SiteResponse("create_plan", caller, site_id,
                                                has_permission[1], 403, {}, created))
                   /\ cachePerm' = o.cachePerm /\ cacheGroups' = o.cacheGroups
                   /\ UNCHANGED <<store, created>>
              ELSE LET r == grant([Here EXCEPT !.cachePerm = o.cachePerm,
                                               !.cacheGroups = o.cacheGroups],
                                  auto_grant_manage(caller, "plan", id))
                   IN  /\ created' = created \cup {PlanRow(id, site_id, caller)}
                       /\ store' = r.store
                       /\ cachePerm' = r.cachePerm /\ cacheGroups' = r.cacheGroups
                       /\ last' = Some(SiteResponse("create_plan", caller, site_id,
                                                    has_permission[1], 201, {}, created))
    /\ UNCHANGED <<cacheOn, now, pre, inflight, audit, sched>>

\* Grants an administrator places on the sites.
SiteInputs ==
    {Row("user", "alice", "site", "s1", "read", "allow", TRUE, Null, Null),
     Row("user", "alice", "site", "s2", "delete", "allow", TRUE, Null, Null),
     Row("user", "alice", "site", "s1", "create", "allow", TRUE, Null, Null)}

SiteGrant(row) ==
    /\ BagCardinality(store) < MaxRows
    /\ ~BagIn(row, store)
    /\ LET r == grant(Here, row)
       IN  /\ store' = r.store
           /\ cachePerm' = r.cachePerm /\ cacheGroups' = r.cacheGroups
    /\ UNCHANGED <<cacheOn, now, pre, extras>>

\* Two sites created by the administrator, no plan, no grant.
InitSites ==
    /\ store = EmptyBag
    /\ cachePerm = EmptyCache
    /\ cacheGroups = EmptyCache
    /\ cacheOn = FALSE
    /\ now = 0
    /\ pre = Null
    /\ inflight = {}
    /\ audit = EmptyBag
    /\ last = Null
    /\ created = {SiteRow(id, "root") : id \in SiteTable}
    /\ sched = [j \in JobIds |-> [running |-> 0, missed |-> 0]]

NextSites ==
    \/ \E row \in SiteInputs : SiteGrant(row)
    \/ \E caller \in ApiCallers : ListSites(caller)
    \/ \E caller \in ApiCallers, id \in SiteTable : GetSite(caller, id)
    \/ \E caller \in ApiCallers, id \in SiteTable : DeleteSite(caller, id)
    \/ \E caller \in ApiCallers, id \in SiteTable : CreatePlan(caller, id, "p1")

SpecSites == InitSites /\ [][NextSites]_vars

\* C24: for a non-admin caller list_sites returns exactly the sites the
\* caller may read, and get_site, delete_site and create_plan answer 403
\* and leave the tables as they were when the check is not allowed.
C24_SitesEnforced ==
    \A l \in last :
        ~is_admin[l.caller] =>
            /\ l.op = "list_sites" =>
                  l.sites = l.allowed
            /\ (l.op \in {"get_site", "delete_site", "create_plan"}
                  /\ l.status # 404 /\ l.allowed = FALSE)
                  => (l.status = 403 /\ created = l.before)


(***************************************************************************)
(* C25: a row whose processing raises inside a run of expire_permissions.  *)
(***************************************************************************)
\* Two grants of alice that expire at 0, on the site and on the plan.
ExpireInputs ==
    {Row("user", "alice", "site", "s1", "read", "allow", TRUE, Null, Some(0)),
     Row("user", "alice", "plan", "p1", "read", "allow", TRUE, Null, Some(0))}

NextExpire ==
    \/ \E row \in ExpireInputs : WorkerGrant(row)
    \/ WorkerTick
    \/ TriggerDue("expire_permissions")
    \/ Misfire("expire_permissions")
    \/ Wake("expire_permissions")
    \/ \E inst \in inflight : ExpireSelect(inst)
    \/ \E inst \in inflight : ExpireCommit(inst)
    \/ \E inst \in inflight : ExpireAbort(inst)

SpecExpire == InitWorker /\ [][NextExpire]_vars

\* Rows with the key of row that the run took out of the store, and
\* 'expired' events with that key that the run added.
deleted_by_run(l, row) ==
    Cardinality({c \in l.store_at_commit : UniqueKey(c[1]) = UniqueKey(row)})
        - Cardinality(RowsWithKey(store, row))

audited_by_run(l, row) ==
    Cardinality(EventsWithKey(audit, "permission_expired", row))
        - Cardinality({ec \in l.audit_before : ec[1] = expired_event(row)})

\* C25: when the processing of a row raised in a run of expire_permissions,
\* every other expired row of the run is deleted and has its 'expired'
\* event, and a row has an event from the run exactly when the run
\* deleted it.
C25_RaiseIsolated ==
    \A l \in last :
        (l.op = "expire_permissions" /\ l.raised # {}) =>
            \A row \in {c[1] : c \in l.expired} :
                /\ row \notin l.raised
                      => (deleted_by_run(l, row) = 1 /\ audited_by_run(l, row) = 1)
                /\ audited_by_run(l, row) > 0 <=> deleted_by_run(l, row) > 0


(***************************************************************************)
(* C26: get_ancestors over business tables that change (rows inserted and  *)
(* deleted, parent rows missing, foreign keys empty).                      *)
(***************************************************************************)
\* The listing that stops at the resource itself.
ancestors_self_only(T, resource_type, resource_id) ==
    << <<resource_type, resource_id, 0>> >>

\* The while loop of get_ancestors over the business rows T.
RECURSIVE walk_in(_, _, _, _, _)
walk_in(T, ancestors, current_type, current_id, depth) ==
    IF current_type \notin DOMAIN HIERARCHY_CONFIG \/ HIERARCHY_CONFIG[current_type] = ""
    THEN ancestors
    ELSE LET found == {r \in T : r.kind = current_type /\ r.id = current_id}
         IN  IF found = {} THEN ancestors
             ELSE LET resource == CHOOSE r \in found : TRUE
                      parent_id == resource.fk
                  IN  IF parent_id = Null THEN ancestors
                      ELSE walk_in(T, Append(ancestors,
                                       <<HIERARCHY_CONFIG[current_type], TheValue(parent_id),
                                         depth>>),
                                   HIERARCHY_CONFIG[current_type], TheValue(parent_id),
                                   depth + 1)

get_ancestors_in(T, resource_type, resource_id) ==
    IF resource_type \notin DOMAIN HIERARCHY_CONFIG THEN <<>>
    ELSE IF HIERARCHY_CONFIG[resource_type] = "" THEN << <<resource_type, resource_id, 0>> >>
    ELSE walk_in(T, << <<resource_type, resource_id, 0>> >>, resource_type, resource_id, 1)

\* is_hierarchical
is_hierarchical(resource_type) ==
    resource_type \in DOMAIN HIERARCHY_CONFIG /\ HIERARCHY_CONFIG[resource_type] # ""

\* One id per table; a row's foreign key is the id of the parent table, or
\* falsy (Null).  The parent row need not exist.
TableIds ==
    [site |-> "s1", plan |-> "p1", sensor |-> "x1", broker |-> "b1",
     alarm |-> "a1", alert |-> "e1"]

TableRows ==
    {[kind |-> "site", id |-> TableIds["site"], fk |-> Null]}
    \cup UNION {{[kind |-> k, id |-> TableIds[k], fk |-> Null],
                  [kind |-> k, id |-> TableIds[k],
                   fk |-> Some(TableIds[HIERARCHY_CONFIG[k]])]} :
                 k \in {t \in DOMAIN TableIds : is_hierarchical(t)}}

InsertRow(r) ==
    /\ \A x \in created : ~(x.kind = r.kind /\ x.id = r.id)
    /\ created' = created \cup {r}
    /\ last' = Null
    /\ UNCHANGED <<store, cachePerm, cacheGroups, cacheOn, now, pre, inflight, audit, sched>>

DeleteRow(r) ==
    /\ r \in created
    /\ created' = created \ {r}
    /\ last' = Null
    /\ UNCHANGED <<store, cachePerm, cacheGroups, cacheOn, now, pre, inflight, audit, sched>>

GetAncestors(resource_type, resource_id) ==
    /\ last' = Some([op |-> "get_ancestors", resource_type |-> resource_type,
                     resource_id |-> resource_id,
                     ancestors |-> get_ancestors_in(created, resource_type, resource_id)])
    /\ UNCHANGED <<store, cachePerm, cacheGroups, cacheOn, now, pre, inflight, audit,
                   created, sched>>

InitHierarchy == InitCreate

NextHierarchy ==
    \/ \E r \in TableRows : InsertRow(r)
    \/ \E r \in TableRows : DeleteRow(r)
    \/ \E k \in DOMAIN TableIds : GetAncestors(k, TableIds[k])

SpecHierarchy == InitHierarchy /\ [][NextHierarchy]_vars

\* The row of the entry e of a listing, if the table has it.
row_of(e) == {r \in created : r.kind = e[1] /\ r.id = e[2]}

\* C26: for a hierarchical kind the listing starts with (kind, id, 0), has
\* consecutive depths, each entry after the first is the parent (static
\* parent kind, foreign key of the row) of the entry before, and it stops
\* only at a site, at a missing row or at a row with an empty foreign key.
C26_AncestorChain ==
    \A l \in last :
          (l.op = "get_ancestors" /\ is_hierarchical(l.resource_type)) =>
              LET a == l.ancestors
                  n == Len(a)
              IN  /\ n >= 1 /\ n <= 5
                  /\ a[1] = <<l.resource_type, l.resource_id, 0>>
                  /\ \A i \in 1..n : a[i][3] = i - 1
                  /\ \A i \in 1..(n - 1) :
                        /\ a[i + 1][1] = HIERARCHY_CONFIG[a[i][1]]
                        /\ \E r \in row_of(a[i]) : r.fk = Some(a[i + 1][2])
                  /\ \/ a[n][1] = "site"
                     \/ row_of(a[n]) = {}
                     \/ \E r \in row_of(a[n]) : r.fk = Null

\* The alert's chain is complete: five entries up to the site.
C26_Witness ==
    \E l \in last :
        /\ l.op = "get_ancestors" /\ l.resource_type = "alert"
        /\ Len(l.ancestors) = 5
        /\ l.ancestors[5] = <<"site", "s1", 4>>

\* The alarm's chain reaches a plan whose row is missing and stops there.
C26_WitnessPrefix ==
    \E l \in last :
        /\ l.op = "get_ancestors" /\ l.resource_type = "alarm"
        /\ Len(l.ancestors) = 3
        /\ l.ancestors[3][1] = "plan" /\ row_of(l.ancestors[3]) = {}


(***************************************************************************)
(* C27: allows whose field list is the empty list.                         *)
(***************************************************************************)
\* C27: when no deny applies and every applicable allow has the empty field
\* list, check returns (True, []): the permission exists and covers no field.
C27_EmptyFieldsAllowed ==
    \A u \in NonAdmins, r \in Resources, p \in Permissions :
        LET allows == ApplicableTo(store, u, r, p, "allow")
        IN  (/\ ApplicableTo(store, u, r, p, "deny") = {}
             /\ allows # {}
             /\ \A rc \in allows : rc[1].fields = Some({}))
                => Results(Fresh(store), u, r, p) = {<<TRUE, Some({})>>}


(***************************************************************************)
(* C28: what a call of check leaves alone.                                 *)
(***************************************************************************)
\* The key spaces c and d agree outside the keys of keep.
same_outside(c, d, keep) ==
    \A k \in (DOMAIN c \cup DOMAIN d) \ keep :
        k \in DOMAIN c /\ k \in DOMAIN d /\ c[k] = d[k]

\* Grants to alice and to the group, her membership, and the checks made.
FrameInputs ==
    {Row("user", "alice", "site", "s1", "read", "allow", TRUE, Null, Null),
     Row("group", "ops", "plan", "p1", "write", "deny", TRUE, Null, Null),
     MemberRow("alice", Null)}

FrameProbes ==
    {<<"alice", r, p>> : r \in {<<"site", "s1">>, <<"plan", "p1">>}, p \in {"read", "write"}}
    \cup {<<"bob", <<"site", "s1">>, "read">>, <<"root", <<"site", "s1">>, "read">>}

NextFrame ==
    \/ \E row \in FrameInputs : Grant(row) /\ UNCHANGED <<pre, extras>>
    \/ \E row \in FrameInputs : Revoke(row) /\ UNCHANGED <<pre, extras>>
    \/ \E c \in FrameProbes : Check(c[1], c[2], c[3]) /\ UNCHANGED <<pre, extras>>

SpecFrame == Init /\ [][NextFrame]_vars

GroupGrant == Row("group", "ops", "site", "s1", "read", "allow", TRUE, Null, Null)

InitEscalation ==
    /\ store \in {EmptyBag, SetToBag({GroupGrant})}
    /\ cachePerm = EmptyCache
    /\ cacheGroups = EmptyCache
    /\ cacheOn = FALSE
    /\ now = 0
    /\ pre = Null
    /\ InitExtras

\* Every call is made by alice.
NextEscalation ==
    \/ \E q \in ApiRequests : ApiGrantBegin("alice", q)
    \/ \E q \in ApiRequests : ApiRevokeBegin("alice", granted_row(q))
    \/ \E req \in inflight : ApiAudit(req)
    \/ \E req \in inflight : ApiFail(req)
    \/ AddGroupMember("ops", "alice")
    \/ RemoveGroupMember("ops", "alice")

SpecEscalation == InitEscalation /\ [][NextEscalation]_vars

\* C29: alice, who started with no grant and no membership and is the only
\* caller, is allowed nothing on a site, a plan or a sensor.
C29_NoSelfEscalation ==
    \A r \in {<<"site", "s1">>, <<"plan", "p1">>, <<"sensor", "x1">>},
       p \in LatticePermissions :
        \A v \in Results(Fresh(store), "alice", r, p) : ~v[1]


(***************************************************************************)
(* C30: the order of the rows the query of check returns.                  *)
(***************************************************************************)
\* Write on the plan for alice and the group, held directly and through
\* the group, on the plan and on the site, restricted and not, allow and deny.
OrderInputs ==
    {MemberRow("alice", Null),
     Row("user", "alice", "plan", "p1", "write", "allow", TRUE, Some({"a"}), Null),
     Row("user", "alice", "site", "s1", "write", "allow", TRUE, Null, Null),
     Row("group", "ops", "site", "s1", "write", "allow", TRUE, Some({"b"}), Null),
     Row("user", "alice", "site", "s1", "read", "deny", FALSE, Null, Null),
     Row("group", "ops", "plan", "p1", "write", "deny", TRUE, Null, Null)}

OrderProbes ==
    {<<"alice", r, p>> : r \in {<<"site", "s1">>, <<"plan", "p1">>}, p \in {"read", "write"}}

\* Any set of the grants is in the store.
InitOrder ==
    /\ store \in {SetToBag(S) : S \in SUBSET OrderInputs}
    /\ cachePerm = EmptyCache
    /\ cacheGroups = EmptyCache
    /\ cacheOn = TRUE
    /\ now = 0
    /\ pre = Null
    /\ InitExtras

NextOrder ==
    \E c \in OrderProbes : Check(c[1], c[2], c[3]) /\ UNCHANGED <<pre, extras>>

SpecOrder == InitOrder /\ [][NextOrder]_vars

\* The rows the query of check matches for u on r with p, from the store.
Matching(u, r, p) ==
    select_permissions(store, now, u, select_user_groups(store, now, u),
                       get_ancestors(r[1], r[2]), expand_permission(p))

\* C30: every order of the matching rows that keeps the denies first gives
\* the same (allowed, set of fields).
C30_OrderIndependent ==
    \A c \in OrderProbes :
        /\ Cardinality(Results(Fresh(store), c[1], c[2], c[3])) = 1
        /\ \A o1, o2 \in order_by_effect_desc(Matching(c[1], c[2], c[3])) :
              decide(o1, get_ancestors(c[2][1], c[2][2]), c[2][1], c[3])
                  = decide(o2, get_ancestors(c[2][1], c[2][2]), c[2][1], c[3])

\* For write on the plan alice has a restricted allow of her own on the
\* plan, an unrestricted one on the site and a restricted one through the
\* group: six orders, and the check was made and allowed every field.
C30_Witness ==
    LET rows == Matching("alice", <<"plan", "p1">>, "write")
        key == make_permission_key("alice", "plan", "p1", "write")
    IN  /\ Cardinality(rows) = 3
        /\ Cardinality(order_by_effect_desc(rows)) = 6
        /\ \E rc \in rows : rc[1].grantee_type = "group" /\ rc[1].fields # Null
        /\ \E rc \in rows : rc[1].resource_type = "site" /\ rc[1].fields = Null
        /\ key \in DOMAIN cachePerm
        /\ cachePerm[key] = [allowed |-> TRUE, fields |-> Null]

=============================================================================
